---- MODULE Spec2Model ----
(***************************************************************************)
(* A model of the AST-walking evaluator of the script compiler front-end   *)
(* (src/carnot/planner/compiler/ast_visitor.cc).  The evaluator state is   *)
(* the IR arena, the chain of variable tables and the module handler; one  *)
(* action of the model is one statement handler of ProcessASTSuite run on  *)
(* the root visitor, or one call of an entry point (ProcessExecFuncs,      *)
(* GetMainFuncArgsSpec).  Nested evaluations (expressions, function        *)
(* bodies) are synchronous and are computed by recursive operators that    *)
(* thread the evaluator state.                                             *)
(***************************************************************************)
EXTENDS Integers, Sequences, FiniteSets, TLC

\* The number of top-level statements of the evaluated script.
MaxStmts == 4

\* The statements of the second family of scripts (misused assignment
\* targets, imports under another name, rejected and decorated function
\* definitions, calls of expressions, chained comparisons) are among the
\* first MaxProbe statements.
MaxProbe == 3

\* The statements of the third family (attribute assignments, comparisons,
\* definitions of decorators and of functions for the exec entry) are among
\* the first MaxEarly statements.
MaxEarly == 2

\* The number of argument strings coerced in a row.
MaxCoerce == 2

\* GetUnaryOp is applied at most this many times in a row.
MaxLookups == 3

\* The main script of a compile with user modules has at most this many imports.
MaxImports == 2

VARIABLES
    st,         \* evaluator state: arena, variable tables, call records
    status,     \* "ok" while every operation so far returned OK, else "error"
    err,        \* the Status returned by the failing operation
    pc,         \* number of top-level statements evaluated so far
    phase,      \* "eval": the module suite is running; "done": it returned;
                \* "exec": ProcessExecFuncs has been called
    last        \* the operation applied last and its input

vars == <<st, status, err, pc, phase, last>>

-----------------------------------------------------------------------------
(* Syntax trees (pypa).  Every node carries its line and column in `at`.    *)

NoAst == [type |-> "Null", at |-> <<0, 0>>]

Name(at, id) == [type |-> "Name", at |-> at, id |-> id]

Str(at, s) == [type |-> "Str", at |-> at, value |-> s]

Number(at, n) == [type |-> "Number", at |-> at, num_type |-> "Integer", integer |-> n]

Attribute(at, value, attr) ==
    [type |-> "Attribute", at |-> at, value |-> value, attribute |-> Name(at, attr)]

Index(value) == [type |-> "Index", at |-> value.at, value |-> value]

Subscript(at, value, slice) ==
    [type |-> "Subscript", at |-> at, value |-> value, slice |-> slice]

Keyword(at, name, value) == [name |-> Name(at, name), value |-> value]

Call(at, function, arguments, keywords) ==
    [type |-> "Call", at |-> at, function |-> function,
     arguments |-> arguments, keywords |-> keywords]

UnaryOp(at, op, operand) == [type |-> "UnaryOp", at |-> at, op |-> op, operand |-> operand]

BinOp(at, op, left, right) ==
    [type |-> "BinOp", at |-> at, op |-> op, left |-> left, right |-> right]

\* left op[1] comparators[1] op[2] comparators[2] ...
Compare(at, left, operators, comparators) ==
    [type |-> "Compare", at |-> at, left |-> left, operators |-> operators,
     comparators |-> comparators]

BoolOp(at, op, values) == [type |-> "BoolOp", at |-> at, op |-> op, values |-> values]

Alias(at, name, as_name) ==
    [type |-> "Alias", at |-> at, name |-> Name(at, name),
     as_name |-> IF as_name = "" THEN NoAst ELSE Name(at, as_name)]

Import(at, alias) == [type |-> "Import", at |-> at, names |-> alias]

ImportFrom(at, level, module, names) ==
    [type |-> "ImportFrom", at |-> at, level |-> level,
     module |-> Name(at, module), names |-> names]

ExpressionStatement(at, expr) == [type |-> "ExpressionStatement", at |-> at, expr |-> expr]

Assign(at, targets, value) ==
    [type |-> "Assign", at |-> at, targets |-> targets, value |-> value]

Arg(at, arg, annotation) == [type |-> "Arg", at |-> at, arg |-> arg, annotation |-> annotation]

Suite(at, items) == [type |-> "Suite", at |-> at, items |-> items]

Return(at, value) == [type |-> "Return", at |-> at, value |-> value]

DocString(at, doc) == [type |-> "DocString", at |-> at, doc |-> doc]

\* A statement of a kind the evaluator has no handler for.
Pass(at) == [type |-> "Pass", at |-> at]

Tuple(at, elements) == [type |-> "Tuple", at |-> at, elements |-> elements]

List(at, elements) == [type |-> "List", at |-> at, elements |-> elements]

\* A function definition without *args, **kwargs, defaults or decorators
\* unless given: defaults has one entry (NoAst = nullptr) per argument.
FunctionDef(at, name, arguments, body) ==
    [type |-> "FunctionDef", at |-> at, name |-> Name(at, name),
     args |-> [arguments |-> arguments,
               defaults |-> [i \in 1..Len(arguments) |-> NoAst],
               args |-> NoAst, kwargs |-> NoAst, keywords |-> <<>>],
     decorators |-> <<>>, body |-> body]

-----------------------------------------------------------------------------
(* Status values.  CreateAstError attaches the line and column of the node  *)
(* it is given; error::Unimplemented and error::InvalidArgument build a     *)
(* Status from the message alone.                                           *)

NoErr == [msg |-> "", arg |-> "", has_loc |-> FALSE, line |-> 0, col |-> 0]

CreateAstError(node, msg, arg) ==
    [msg |-> msg, arg |-> arg, has_loc |-> TRUE, line |-> node.at[1], col |-> node.at[2]]

PlainError(msg, arg) ==
    [msg |-> msg, arg |-> arg, has_loc |-> FALSE, line |-> 0, col |-> 0]

\* The result of a StatusOr-returning evaluation step: the value or the
\* error, and the evaluator state the step left behind.
\* `ret` marks the result of a `return` statement, which ends its suite.
Ok(obj, s) == [ok |-> TRUE, ret |-> FALSE, obj |-> obj, err |-> NoErr, st |-> s]

Fail(e, s) == [ok |-> FALSE, ret |-> FALSE, obj |-> <<>>, err |-> e, st |-> s]

-----------------------------------------------------------------------------
(* Script-visible objects (QLObject).                                       *)

NoFn ==
    [args |-> <<>>, annots |-> <<>>, body |-> NoAst, scope |-> 0, native |-> "",
     doc |-> "", arg_types |-> <<>>]

Obj(kind, node, name, dt, items, attrs, fn) ==
    [kind |-> kind, node |-> node, name |-> name, dt |-> dt,
     items |-> items, attrs |-> attrs, fn |-> fn]

ExprObject(node) == Obj("Expr", node, "", "", <<>>, <<>>, NoFn)

DataframeObject(op) == Obj("Dataframe", op, "", "", <<>>, <<>>, NoFn)

NoneObject == Obj("None", 0, "None", "", <<>>, <<>>, NoFn)

\* TypeObject::Create(IRNodeType, visitor): the node type it matches and the
\* data type ParseStringAsType switches on.
TypeObject(node_type, data_type) == Obj("Type", 0, node_type, data_type, <<>>, <<>>, NoFn)

CollectionObject(kind, items) == Obj(kind, 0, "", "", items, <<>>, NoFn)

ModuleObject(name, attrs) == Obj("Module", 0, name, "", <<>>, attrs, NoFn)

\* FuncObject::Create(name, arguments, ..., impl, visitor).  The impl of a
\* user-defined function is FuncDefHandler bound to the defining visitor
\* (scope), the argument names, the annotation objects and the body; the impl
\* of a native function is named by `native` and acts on the operator `node`.
FuncObject(name, args, annots, body, scope, native, node) ==
    Obj("Function", node, name, "", <<>>, <<>>,
        [args |-> args, annots |-> annots, body |-> body, scope |-> scope,
         native |-> native, doc |-> "", arg_types |-> <<>>])

HasNode(obj) == obj.kind \in {"Expr", "Dataframe"}

IsCollection(obj) == obj.kind \in {"List", "Tuple"}

\* nullptr, as returned by VarTable::Lookup for an unbound name.
NullObj == Obj("Null", 0, "", "", <<>>, <<>>, NoFn)

-----------------------------------------------------------------------------
(* The IR arena.  Node ids are handed out in increasing order and never     *)
(* reused; `nodes` maps the ids of the live nodes to their contents.        *)

\* A node: its variant, its literal value (b, n or s by variant; s is also the
\* column name, the opcode or the table name), its operands, its parent
\* operators and the source location it refers back to.
IRNode(type, b, n, s, args, parents, at) ==
    [type |-> type, b |-> b, n |-> n, s |-> s, args |-> args,
     parents |-> parents, at |-> at]

BoolIR(ast, val) == IRNode("Bool", val, 0, "", <<>>, <<>>, ast.at)

IntIR(ast, val) == IRNode("Int", FALSE, val, "", <<>>, <<>>, ast.at)

StringIR(ast, str) == IRNode("String", FALSE, 0, str, <<>>, <<>>, ast.at)

ColumnIR(ast, col_name) == IRNode("Column", FALSE, 0, col_name, <<>>, <<>>, ast.at)

FuncIR(ast, op, args) == IRNode("Func", FALSE, 0, op, args, <<>>, ast.at)

MemorySourceIR(ast, table) == IRNode("MemorySource", FALSE, 0, table, <<>>, <<>>, ast.at)

\* A Map that keeps its input columns and adds (or replaces) col_name := expr.
MapIR(ast, parent, col_name, expr) ==
    IRNode("Map", FALSE, 0, col_name, <<expr>>, <<parent>>, ast.at)

FilterIR(ast, parent, expr) == IRNode("Filter", FALSE, 0, "", <<expr>>, <<parent>>, ast.at)

\* A sink named `name`, or "name[index]" when indexed is TRUE.
MemorySinkIR(ast, parent, name, indexed, index) ==
    IRNode("MemorySink", indexed, index, name, <<>>, <<parent>>, ast.at)

ExpressionTypes == {"Bool", "Int", "Float", "String", "Time", "Column", "Func"}

OperatorTypes == {"MemorySource", "Map", "Filter", "MemorySink"}

\* ir_graph_->CreateNode<T>(ast, ...): the new state; the node has id s.next_id.
CreateNode(s, node) ==
    [s EXCEPT !.nodes = [i \in DOMAIN s.nodes \cup {s.next_id} |->
                            IF i = s.next_id THEN node ELSE s.nodes[i]],
              !.next_id = s.next_id + 1]

Range(seq) == {seq[i] : i \in DOMAIN seq}

\* The live nodes that have `id` as an operand or as a parent operator.
Consumers(s, id) ==
    {i \in DOMAIN s.nodes : id \in Range(s.nodes[i].args) \cup Range(s.nodes[i].parents)}

\* ir_graph_->DeleteNode(id).
DeleteNode(s, id) ==
    IF id \notin DOMAIN s.nodes \/ Consumers(s, id) # {}
    THEN Fail(PlainError("DeleteNode", ""), s)
    ELSE Ok(NullObj, [s EXCEPT !.nodes = [i \in DOMAIN s.nodes \ {id} |-> s.nodes[i]],
                               !.deleted = s.deleted \cup {id}])

-----------------------------------------------------------------------------
(* Variable tables.  s.scopes is the stack of the live tables: the root     *)
(* table first, then one table per running function call.                   *)

RECURSIVE Lookup(_, _, _)
\* var_table->Lookup(name): this table, then its parents; NullObj if unbound.
Lookup(scopes, sid, name) ==
    IF sid = 0 THEN NullObj
    ELSE IF name \in DOMAIN scopes[sid].table THEN scopes[sid].table[name]
    ELSE Lookup(scopes, scopes[sid].parent, name)

\* var_table->Add(name, obj) on the table `sid`.
Add(s, sid, name, obj) ==
    [s EXCEPT !.scopes[sid].table =
        [n \in DOMAIN s.scopes[sid].table \cup {name} |->
            IF n = name THEN obj ELSE s.scopes[sid].table[n]]]

\* var_table->CreateChild(): the new table is the last one of the stack.
VarTableCreateChild(s, sid) ==
    [s EXCEPT !.scopes = Append(s.scopes, [parent |-> sid, table |-> <<>>])]

-----------------------------------------------------------------------------
(* Object capabilities and helpers of the object model.                     *)

kMapOpId == "map"

OperatorContext(parent_ops, operator_name, referenceable_dataframes) ==
    [parent_ops |-> parent_ops, operator_name |-> operator_name,
     referenceable_dataframes |-> referenceable_dataframes]

\* The context {{}, "", {}} of a statement-level evaluation.
EmptyContext == OperatorContext(<<>>, "", <<>>)

\* FuncIR::op_map and FuncIR::unary_op_map: operator symbol -> opcode.
op_map ==
    [o \in {"+", "-", "*", "==", "<", "and", "or"} |->
        CASE o = "+" -> "add" [] o = "-" -> "sub" [] o = "*" -> "mult"
          [] o = "==" -> "eq" [] o = "<" -> "lt" [] o = "and" -> "logand"
          [] OTHER -> "logor"]

unary_op_map ==
    [o \in {"+", "-", "not", "~"} |->
        CASE o = "+" -> "non_op" [] o = "-" -> "negate" [] o = "not" -> "lognot"
          [] OTHER -> "invert"]

\* node->CreateIRNodeError(...): the error points at the node's own syntax.
IRNodeError(node, msg, arg) ==
    [msg |-> msg, arg |-> arg, has_loc |-> TRUE, line |-> node.at[1], col |-> node.at[2]]

\* GetArgAs<ColumnIR> / GetArgAs<ExpressionIR>: the object's node, which must
\* be of one of the wanted variants.  The object holds a raw pointer to its
\* node: if the node is not in the arena any more the process ends.
GetArgAs(obj, wanted, what, ast, s) ==
    IF ~HasNode(obj)
    THEN Fail(CreateAstError(ast, "Expected IR node, object has none", what), s)
    ELSE IF obj.node \notin DOMAIN s.nodes
    THEN Fail(PlainError("crash", "GetArgAs: the object's node is not in the arena"), s)
    ELSE IF s.nodes[obj.node].type \notin wanted
    THEN Fail(IRNodeError(s.nodes[obj.node], "Unexpected node type", what), s)
    ELSE Ok(obj.node, s)

\* GetCallMethod: a Function is its own call method; other objects are
\* callable through a "__call__" attribute only.
GetCallMethod(ast, obj, s) ==
    IF obj.kind = "Function" THEN Ok(obj, s)
    ELSE IF "__call__" \in DOMAIN obj.attrs THEN Ok(obj.attrs["__call__"], s)
    ELSE Fail(CreateAstError(ast, "object is not callable", obj.kind), s)

HasSubscriptMethod(obj) == obj.kind = "Dataframe"

\* Dataframe::GetSubscriptMethod: a native function of one parameter, `key`.
GetSubscriptMethod(obj) ==
    FuncObject("__getitem__", <<"key">>, <<>>, NoAst, 0, "subscript", obj.node)

\* obj->GetAttribute(ast, name).  A Dataframe attribute that is no method is
\* taken to be a column; a Module gives the object it holds under the name.
GetAttribute(obj, ast, name, s) ==
    IF obj.kind = "Dataframe"
    THEN Ok(ExprObject(s.next_id), CreateNode(s, ColumnIR(ast, name)))
    ELSE IF name \in DOMAIN obj.attrs THEN Ok(obj.attrs[name], s)
    ELSE Fail(CreateAstError(ast, "object has no attribute", name), s)

HasAttribute(obj, name) == obj.kind = "Dataframe" \/ name \in DOMAIN obj.attrs

\* Dataframe::FromColumnAssignment(expr_node, column, expr): a new Dataframe
\* over a Map of the parent operator that sets column->col_name to expr.
FromColumnAssignment(parent_df, expr_node, column, expr, s) ==
    Ok(DataframeObject(s.next_id),
       CreateNode(s, MapIR(expr_node, parent_df.node, s.nodes[column].s, expr)))

\* TypeObject::NodeMatches(node).
NodeMatches(type_object, node) ==
    IF node.type = type_object.name THEN NoErr
    ELSE IRNodeError(node, "Expected type, received", node.type)

-----------------------------------------------------------------------------
(* Expression evaluation.  Every operator takes the syntax node, the        *)
(* operator context, the variable table `cur` of the visitor that runs it   *)
(* and the evaluator state, and gives a result record (Ok or Fail).         *)

RECURSIVE Eval(_, _)
RECURSIVE ProcessCollectionChildren(_, _, _, _, _)
RECURSIVE ProcessKeywords(_, _, _, _, _)
RECURSIVE ValidateSubscriptValue(_, _)

\* The nested evaluations: each runs the operator of the source it names
\* (Eval, below, is the one point of recursion of the evaluator).
\* Process(node, op_context) on the visitor of table `cur`.
Visit(node, op_context, cur, s) == Eval("Process", <<node, op_context, cur, s>>)

\* func->Call(args, ast).
Invoke(f, argmap, ast, s) == Eval("FuncObjectCall", <<f, argmap, ast, s>>)

\* ProcessASTSuite(body, is_function_definition_body) on the visitor of `cur`.
VisitSuite(body, is_function_definition_body, cur, s) ==
    Eval("ProcessASTSuite", <<body, is_function_definition_body, cur, s>>)

\* One statement of a suite on the visitor of `cur`.
VisitStmt(stmt, is_function_definition_body, cur, s) ==
    Eval("ProcessStmt", <<stmt, is_function_definition_body, cur, s>>)

\* GetOp: the binary-operator table lookup.
GetOp(python_op, node, s) ==
    IF python_op \notin DOMAIN op_map
    THEN Fail(CreateAstError(node, "Operator not handled", python_op), s)
    ELSE Ok(op_map[python_op], s)

\* GetUnaryOp: the unary-operator table lookup.  For a symbol that is not in
\* the table, find() gives unary_op_map.end(), which the code compares with
\* op_map.end(), the end of another container: the comparison is undefined and
\* s.ub says how the build resolves it.
GetUnaryOp(python_op, node, s) ==
    IF python_op \in DOMAIN unary_op_map THEN Ok(unary_op_map[python_op], s)
    ELSE IF s.ub = "ends_equal"
    THEN Fail(CreateAstError(node, "Unary Operator not handled", python_op), s)
    ELSE Fail(PlainError("crash", "dereference of unary_op_map.end()"), s)

\* LookupVariable(ast, name).
LookupVariable(ast, name, cur, s) ==
    LET var == Lookup(s.scopes, cur, name)
    IN  IF var.kind = "Null"
        THEN Fail(CreateAstError(ast, "name is not defined", name), s)
        ELSE Ok(var, s)

\* GetAttributeStr(attr).
GetAttributeStr(attr, s) ==
    IF attr.attribute.type # "Name"
    THEN Fail(CreateAstError(attr, "not a valid attribute", attr.attribute.type), s)
    ELSE Ok(attr.attribute.id, s)

ProcessStr(ast, s) == Ok(ExprObject(s.next_id), CreateNode(s, StringIR(ast, ast.value)))

ProcessNumber(node, s) ==
    IF node.num_type \in {"Integer", "Long"}
    THEN Ok(ExprObject(s.next_id), CreateNode(s, IntIR(node, node.integer)))
    ELSE Fail(CreateAstError(node, "Couldn't find number type", node.num_type), s)

ValidateSubscriptValue(node, op_context) ==
    IF op_context.operator_name # kMapOpId THEN NoErr
    ELSE IF node.type = "Attribute" THEN ValidateSubscriptValue(node.value, op_context)
    ELSE IF node.type = "Name"
            /\ node.id \notin Range(op_context.referenceable_dataframes)
    THEN CreateAstError(node, "name is not available in this context", node.id)
    ELSE NoErr

ProcessSubscriptCall(node, op_context, cur, s) ==
    LET v == ValidateSubscriptValue(node.value, op_context)
        dfs == IF node.value.type = "Name"
               THEN Append(op_context.referenceable_dataframes, node.value.id)
               ELSE op_context.referenceable_dataframes
        new_op_context == OperatorContext(op_context.parent_ops,
                                          op_context.operator_name, dfs)
        WithSlice(pyobject, arg) ==
            IF ~arg.ok THEN arg
            ELSE Invoke(GetSubscriptMethod(pyobject), [args |-> <<arg.obj>>, kwargs |-> <<>>],
                        node, arg.st)
        WithValue(r) ==
            IF ~r.ok THEN r
            ELSE IF ~HasSubscriptMethod(r.obj)
            THEN Fail(CreateAstError(node, "is not subscriptable", r.obj.kind), r.st)
            ELSE IF node.slice.type # "Index"
            THEN Fail(CreateAstError(node.slice, "object cannot be an index",
                                     node.slice.type), r.st)
            ELSE WithSlice(r.obj, Visit(node.slice.value, new_op_context, cur, r.st))
    IN  IF v # NoErr THEN Fail(v, s)
        ELSE WithValue(Visit(node.value, op_context, cur, s))

ProcessAttribute(node, op_context, cur, s) ==
    LET WithValue(attr_str, r) ==
            IF ~r.ok THEN r ELSE GetAttribute(r.obj, node, attr_str, r.st)
        WithAttr(a) ==
            IF ~a.ok THEN a ELSE WithValue(a.obj, Visit(node.value, op_context, cur, s))
    IN  WithAttr(GetAttributeStr(node, s))

\* The loop of ProcessCollectionChildren and of ProcessArgs over positional
\* arguments: the elements are evaluated in order; `acc` holds the values.
ProcessCollectionChildren(elements, op_context, cur, s, acc) ==
    LET WithChild(r) ==
            IF ~r.ok THEN r
            ELSE ProcessCollectionChildren(elements, op_context, cur, r.st,
                                           Append(acc, r.obj))
    IN  IF Len(acc) = Len(elements) THEN Ok(acc, s)
        ELSE WithChild(Visit(elements[Len(acc) + 1], op_context, cur, s))

\* The loop of ProcessArgs over the keywords.
ProcessKeywords(keywords, op_context, cur, s, acc) ==
    LET WithValue(kw, r) ==
            IF ~r.ok THEN r
            ELSE ProcessKeywords(keywords, op_context, cur, r.st,
                                 Append(acc, [name |-> kw.name.id, value |-> r.obj]))
    IN  IF Len(acc) = Len(keywords) THEN Ok(acc, s)
        ELSE WithValue(keywords[Len(acc) + 1],
                       Visit(keywords[Len(acc) + 1].value, op_context, cur, s))

ProcessArgs(call_ast, op_context, cur, s) ==
    LET WithKwargs(a, k) ==
            IF ~k.ok THEN k ELSE Ok([args |-> a.obj, kwargs |-> k.obj], k.st)
        WithArgs(a) ==
            IF ~a.ok THEN a
            ELSE WithKwargs(a, ProcessKeywords(call_ast.keywords, op_context, cur, a.st,
                                               <<>>))
    IN  WithArgs(ProcessCollectionChildren(call_ast.arguments, op_context, cur, s, <<>>))

\* The items of a List or Tuple as a Collection object.
ToCollection(kind, r) == IF ~r.ok THEN r ELSE Ok(CollectionObject(kind, r.obj), r.st)

ProcessList(ast, op_context, cur, s) ==
    ToCollection("List", ProcessCollectionChildren(ast.elements, op_context, cur, s, <<>>))

ProcessTuple(ast, op_context, cur, s) ==
    ToCollection("Tuple", ProcessCollectionChildren(ast.elements, op_context, cur, s, <<>>))

\* ProcessCallNode with a slip: the arguments are evaluated before the callee
\* is looked at.
ProcessCallNodeArgsFirst(node, op_context, cur, s) ==
    LET WithArgs(func_object, args) ==
            IF ~args.ok THEN args ELSE Invoke(func_object, args.obj, node, args.st)
        WithMethod(f, args) ==
            IF ~f.ok THEN f ELSE WithArgs(f.obj, args)
        Checked(r, args) ==
            IF ~args.ok THEN args
            ELSE IF r.obj.kind = "Expr"
            THEN IF args.st.nodes[r.obj.node].type = "Column"
                 THEN Fail(CreateAstError(node, "dataframe has no method",
                                          args.st.nodes[r.obj.node].s), args.st)
                 ELSE Fail(CreateAstError(node, "expression object is not callable", ""),
                           args.st)
            ELSE WithMethod(GetCallMethod(node, r.obj, args.st), args)
        WithFunction(r) ==
            IF ~r.ok THEN r
            ELSE Checked(r, ProcessArgs(node, op_context, cur, r.st))
    IN  WithFunction(Visit(node.function, op_context, cur, s))

ProcessCallNode(node, op_context, cur, s) ==
    LET WithArgs(func_object, args) ==
            IF ~args.ok THEN args ELSE Invoke(func_object, args.obj, node, args.st)
        WithMethod(f) ==
            IF ~f.ok THEN f
            ELSE WithArgs(f.obj, ProcessArgs(node, op_context, cur, f.st))
        WithFunction(r) ==
            IF ~r.ok THEN r
            ELSE IF r.obj.kind = "Expr"
            THEN IF r.st.nodes[r.obj.node].type = "Column"
                 THEN Fail(CreateAstError(node, "dataframe has no method",
                                          r.st.nodes[r.obj.node].s), r.st)
                 ELSE Fail(CreateAstError(node, "expression object is not callable", ""),
                           r.st)
            ELSE WithMethod(GetCallMethod(node, r.obj, r.st))
    IN  WithFunction(Visit(node.function, op_context, cur, s))

ProcessDataBinOp(node, op_context, cur, s) ==
    LET WithOp(left, right, op, s2) ==
            IF ~left.ok THEN left
            ELSE IF ~right.ok THEN right
            ELSE IF ~op.ok THEN op
            ELSE Ok(ExprObject(s2.next_id),
                    CreateNode(s2, FuncIR(node, op.obj, <<left.obj, right.obj>>)))
        WithRight(left_obj, r) ==
            IF ~r.ok THEN r
            ELSE WithOp(GetArgAs(left_obj, ExpressionTypes, "left side of operation", node,
                                 r.st),
                        GetArgAs(r.obj, ExpressionTypes, "right side of operation", node,
                                 r.st),
                        GetOp(node.op, node, r.st), r.st)
        WithLeft(l) ==
            IF ~l.ok THEN l
            ELSE WithRight(l.obj, Visit(node.right, op_context, cur, l.st))
    IN  WithLeft(Visit(node.left, op_context, cur, s))

\* The record of a finished unary operation: the opcode, the operand's node,
\* the node of the result as it is in the arena, and the next node id before
\* and after.
NoteUnary(r, op, operand, before) ==
    [r EXCEPT !.st.unops =
        Append(@, [op |-> op, operand |-> operand, result |-> r.obj.node,
                   node |-> r.st.nodes[r.obj.node],
                   nodes_before |-> DOMAIN before.nodes,
                   nodes_after |-> DOMAIN r.st.nodes,
                   next_before |-> before.next_id, next_after |-> r.st.next_id])]

\* ProcessDataUnaryOp with a slip: the no-op opcode makes a function node too.
ProcessDataUnaryOpAlwaysNode(node, op_context, cur, s) ==
    LET WithOp(operand, op, s2) ==
            IF ~op.ok THEN op
            ELSE NoteUnary(Ok(ExprObject(s2.next_id),
                              CreateNode(s2, FuncIR(node, op.obj, <<operand>>))),
                           op.obj, operand, s2)
        WithExpr(operand, s2) ==
            IF ~operand.ok THEN operand
            ELSE WithOp(operand.obj, GetUnaryOp(node.op, node, s2), s2)
        WithOperand(o) ==
            IF ~o.ok THEN o
            ELSE WithExpr(GetArgAs(o.obj, ExpressionTypes, "operand of unary op", node,
                                   o.st), o.st)
    IN  WithOperand(Visit(node.operand, op_context, cur, s))

\* ProcessDataUnaryOp with a slip: the result object is made over the id of
\* the function node, also when the no-op opcode makes none.
ProcessDataUnaryOpStaleId(node, op_context, cur, s) ==
    LET WithOp(operand, op, s2) ==
            IF ~op.ok THEN op
            ELSE IF op.obj = "non_op" THEN Ok(ExprObject(s2.next_id), s2)
            ELSE Ok(ExprObject(s2.next_id),
                    CreateNode(s2, FuncIR(node, op.obj, <<operand>>)))
        WithExpr(operand, s2) ==
            IF ~operand.ok THEN operand
            ELSE WithOp(operand.obj, GetUnaryOp(node.op, node, s2), s2)
        WithOperand(o) ==
            IF ~o.ok THEN o
            ELSE WithExpr(GetArgAs(o.obj, ExpressionTypes, "operand of unary op", node,
                                   o.st), o.st)
    IN  WithOperand(Visit(node.operand, op_context, cur, s))

ProcessDataUnaryOp(node, op_context, cur, s) ==
    LET WithOp(operand, op, s2) ==
            IF ~op.ok THEN op
            ELSE NoteUnary(IF op.obj = "non_op" THEN Ok(ExprObject(operand), s2)
                           ELSE Ok(ExprObject(s2.next_id),
                                   CreateNode(s2, FuncIR(node, op.obj, <<operand>>))),
                           op.obj, operand, s2)
        WithExpr(operand, s2) ==
            IF ~operand.ok THEN operand
            ELSE WithOp(operand.obj, GetUnaryOp(node.op, node, s2), s2)
        WithOperand(o) ==
            IF ~o.ok THEN o
            ELSE WithExpr(GetArgAs(o.obj, ExpressionTypes, "operand of unary op", node,
                                   o.st), o.st)
    IN  WithOperand(Visit(node.operand, op_context, cur, s))

ProcessDataBoolOp(node, op_context, cur, s) ==
    LET WithOp(left, right, op, s2) ==
            IF ~left.ok THEN left
            ELSE IF ~right.ok THEN right
            ELSE IF ~op.ok THEN op
            ELSE Ok(ExprObject(s2.next_id),
                    CreateNode(s2, FuncIR(node, op.obj, <<left.obj, right.obj>>)))
        WithRight(left_obj, r) ==
            IF ~r.ok THEN r
            ELSE WithOp(GetArgAs(left_obj, ExpressionTypes, "left side of operation", node,
                                 r.st),
                        GetArgAs(r.obj, ExpressionTypes, "right side of operation", node,
                                 r.st),
                        GetOp(node.op, node, r.st), r.st)
        WithLeft(l) ==
            IF ~l.ok THEN l
            ELSE WithRight(l.obj, Visit(node.values[2], op_context, cur, l.st))
    IN  IF Len(node.values) # 2
        THEN Fail(CreateAstError(node, "Expected two arguments to", node.op), s)
        ELSE WithLeft(Visit(node.values[1], op_context, cur, s))

\* DCHECK_EQ ends the process in a build that keeps its DCHECKs (s.dchecks)
\* and is no code at all in the others.  The loop over the comparators runs
\* once: there is exactly one where it is reached.
ProcessDataCompare(node, op_context, cur, s) ==
    LET WithOp(left, expr, op) ==
            IF ~op.ok THEN op
            ELSE Ok(ExprObject(op.st.next_id),
                    CreateNode(op.st, FuncIR(node, op.obj, <<left, expr>>)))
        WithExpr(left, expr) ==
            IF ~expr.ok THEN expr
            ELSE WithOp(left, expr.obj, GetOp(node.operators[1], node, expr.st))
        WithComp(left, obj) ==
            IF ~obj.ok THEN obj
            ELSE WithExpr(left, GetArgAs(obj.obj, ExpressionTypes, "argument to operation",
                                         node, obj.st))
        WithLeft(left) ==
            IF ~left.ok THEN left
            ELSE WithComp(left.obj, Visit(node.comparators[1], op_context, cur, left.st))
        WithLeftObj(left_obj) ==
            IF ~left_obj.ok THEN left_obj
            ELSE WithLeft(GetArgAs(left_obj.obj, ExpressionTypes, "left side of operation",
                                   node, left_obj.st))
    IN  IF s.dchecks /\ Len(node.operators) # 1
        THEN Fail(PlainError("crash", "DCHECK_EQ(node->operators.size(), 1ULL)"), s)
        ELSE IF Len(node.comparators) # 1
        THEN Fail(CreateAstError(node, "Only expected one argument to the right of",
                                 node.operators[1]), s)
        ELSE WithLeftObj(Visit(node.left, op_context, cur, s))

\* Visit(node, op_context): the dispatch over the expression kinds.
Process(node, op_context, cur, s) ==
    CASE node.type = "Call" -> ProcessCallNode(node, op_context, cur, s)
      [] node.type = "Subscript" -> ProcessSubscriptCall(node, op_context, cur, s)
      [] node.type = "Name" -> LookupVariable(node, node.id, cur, s)
      [] node.type = "Attribute" -> ProcessAttribute(node, op_context, cur, s)
      [] node.type = "Str" -> ProcessStr(node, s)
      [] node.type = "Number" -> ProcessNumber(node, s)
      [] node.type = "List" -> ProcessList(node, op_context, cur, s)
      [] node.type = "Tuple" -> ProcessTuple(node, op_context, cur, s)
      [] node.type = "BinOp" -> ProcessDataBinOp(node, op_context, cur, s)
      [] node.type = "BoolOp" -> ProcessDataBoolOp(node, op_context, cur, s)
      [] node.type = "Compare" -> ProcessDataCompare(node, op_context, cur, s)
      [] node.type = "UnaryOp" -> ProcessDataUnaryOp(node, op_context, cur, s)
      [] OTHER -> Fail(CreateAstError(node, "Expression node not defined", node.type), s)

-----------------------------------------------------------------------------
(* Function calls.                                                          *)

RECURSIVE BindArgs(_, _, _, _, _, _)

\* The platform module's DataFrame(table): a Dataframe over a new source.
DataFrameImpl(ast, args, s) ==
    LET t == args["table"]
    IN  IF t.kind = "Expr" /\ s.nodes[t.node].type = "String"
        THEN Ok(DataframeObject(s.next_id),
                CreateNode(s, MemorySourceIR(ast, s.nodes[t.node].s)))
        ELSE Fail(CreateAstError(ast, "Expected string for table", ""), s)

\* The Dataframe subscript method on operator `op`: a String key selects a
\* column, a Collection keeps columns, another expression filters.
SubscriptImpl(op, ast, args, s) ==
    LET key == args["key"]
    IN  IF key.kind = "Expr" /\ s.nodes[key.node].type = "String"
        THEN Ok(ExprObject(s.next_id), CreateNode(s, ColumnIR(ast, s.nodes[key.node].s)))
        ELSE IF IsCollection(key)
        THEN Ok(DataframeObject(s.next_id),
                CreateNode(s, IRNode("Map", FALSE, 0, "", <<>>, <<op>>, ast.at)))
        ELSE IF key.kind = "Expr"
        THEN Ok(DataframeObject(s.next_id), CreateNode(s, FilterIR(ast, op, key.node)))
        ELSE Fail(CreateAstError(ast, "subscript argument must have an expression", ""), s)

\* DoesArgMatchAnnotation(ql_arg, annotation_obj): NoErr or the error.  An
\* argument without a node trips DCHECK(ql_arg->HasNode()) or is dereferenced
\* as a null node: the process ends.
DoesArgMatchAnnotation(ql_arg, annotation_obj, s) ==
    IF ~HasNode(ql_arg) THEN PlainError("crash", "DoesArgMatchAnnotation: arg has no node")
    ELSE
    LET arg == s.nodes[ql_arg.node]
    IN  IF annotation_obj.kind = "Type"
        THEN IF arg.type \notin ExpressionTypes
             THEN IRNodeError(arg, "Expected type, received", arg.type)
             ELSE NodeMatches(annotation_obj, arg)
        ELSE IF annotation_obj.kind # ql_arg.kind
        THEN IRNodeError(arg, "Expected kind, received", ql_arg.kind)
        ELSE NoErr

\* CreateChild with a slip: the new visitor shares this visitor's table.
CreateChildSharesTable(s, this) ==
    [st |-> VarTableCreateChild(s, this), sid |-> this]

\* CreateChild(): a visitor on a new child table of this visitor's table.
CreateChild(s, this) ==
    [st |-> VarTableCreateChild(s, this), sid |-> Len(s.scopes) + 1]

\* The loop of FuncDefHandler over the parameters, from the i-th on: check the
\* argument against its annotation, then bind it in the function's table.
BindArgs(arg_names, i, arg_annotation_objs, args, func_table, s) ==
    IF i > Len(arg_names) THEN Ok(NullObj, s)
    ELSE
    LET arg_name == arg_names[i]
        arg_object == args[arg_name]
        m == IF arg_name \in DOMAIN arg_annotation_objs
             THEN DoesArgMatchAnnotation(arg_object, arg_annotation_objs[arg_name], s)
             ELSE NoErr
    IN  IF m # NoErr THEN Fail(m, s)
        ELSE BindArgs(arg_names, i + 1, arg_annotation_objs, args, func_table,
                      Add(s, func_table, arg_name, arg_object))

\* What a finished call of a user-defined function leaves in the record of
\* calls: the tables and the arena before and after, the function's own table
\* as it was when the body ended, whether every annotated argument matched,
\* the record of the body's suite (0 if the body was not run) and the value.
CallRecord(this, arg_names, arg_annotation_objs, args, child, before, r) ==
    [this |-> this,
     child |-> child.sid,
     child_parent |-> IF child.sid \in DOMAIN r.st.scopes
                      THEN r.st.scopes[child.sid].parent ELSE 0,
     child_names |-> IF child.sid \in DOMAIN r.st.scopes
                     THEN DOMAIN r.st.scopes[child.sid].table ELSE {},
     params |-> Range(arg_names),
     annotations_ok |-> \A n \in DOMAIN arg_annotation_objs :
                          DoesArgMatchAnnotation(args[n], arg_annotation_objs[n], before)
                            = NoErr,
     scopes_before |-> before.scopes,
     scopes_at_end |-> SubSeq(r.st.scopes, 1, Len(before.scopes)),
     next_before |-> before.next_id,
     next_after |-> r.st.next_id,
     steps_before |-> before.steps,
     steps_after |-> r.st.steps,
     suite |-> IF Len(r.st.suites) > Len(before.suites) THEN Len(r.st.suites) ELSE 0,
     obj |-> r.obj,
     ok |-> r.ok]

\* FuncDefHandler with a slip: the arguments are bound without the check
\* against their annotations.
FuncDefHandlerUnchecked(this, arg_names, arg_annotation_objs, body, ast, args, s) ==
    LET Leave(func_visitor, r) ==
            [r EXCEPT !.ret = FALSE,
                      !.st = [r.st EXCEPT
                                 !.scopes = SubSeq(r.st.scopes, 1, Len(s.scopes)),
                                 !.calls = Append(r.st.calls,
                                     CallRecord(this, arg_names, arg_annotation_objs, args,
                                                func_visitor, s, r))]]
        RunBody(func_visitor, b) ==
            Leave(func_visitor,
                  IF b.ok THEN VisitSuite(body, TRUE, func_visitor.sid, b.st) ELSE b)
        Enter(func_visitor) ==
            RunBody(func_visitor,
                    BindArgs(arg_names, 1, <<>>, args, func_visitor.sid, func_visitor.st))
    IN  Enter(CreateChild(s, this))

\* FuncDefHandler(arg_names, arg_annotation_objs, body, ast, args), run by the
\* defining visitor `this`.  The function's visitor and its table are released
\* when the handler returns.
FuncDefHandler(this, arg_names, arg_annotation_objs, body, ast, args, s) ==
    LET Leave(func_visitor, r) ==
            [r EXCEPT !.ret = FALSE,
                      !.st = [r.st EXCEPT
                                 !.scopes = SubSeq(r.st.scopes, 1, Len(s.scopes)),
                                 !.calls = Append(r.st.calls,
                                     CallRecord(this, arg_names, arg_annotation_objs, args,
                                                func_visitor, s, r))]]
        RunBody(func_visitor, b) ==
            Leave(func_visitor,
                  IF b.ok THEN VisitSuite(body, TRUE, func_visitor.sid, b.st) ELSE b)
        Enter(func_visitor) ==
            RunBody(func_visitor,
                    BindArgs(arg_names, 1, arg_annotation_objs, args, func_visitor.sid,
                             func_visitor.st))
    IN  Enter(CreateChild(s, this))

\* FuncObject::Call(args, ast): positional values are bound to the declared
\* parameters in order, keywords by name; an unknown, doubly given or missing
\* parameter fails the call before the implementation runs.
FuncObjectCall(f, argmap, ast, s) ==
    LET names == f.fn.args
        npos == Len(argmap.args)
        posnames == {names[i] : i \in 1..npos}
        kwnames == {argmap.kwargs[i].name : i \in DOMAIN argmap.kwargs}
    IN  IF npos > Len(names)
        THEN Fail(CreateAstError(ast, "takes fewer arguments than given", f.name), s)
        ELSE IF kwnames \ Range(names) # {}
        THEN Fail(CreateAstError(ast, "got an unexpected keyword argument", f.name), s)
        ELSE IF kwnames \cap posnames # {}
        THEN Fail(CreateAstError(ast, "got multiple values for argument", f.name), s)
        ELSE IF Range(names) \ (posnames \cup kwnames) # {}
        THEN Fail(CreateAstError(ast, "missing required positional arguments", f.name), s)
        ELSE
        LET parsed == [n \in Range(names) |->
                         IF n \in posnames
                         THEN argmap.args[CHOOSE i \in 1..npos : names[i] = n]
                         ELSE argmap.kwargs[CHOOSE i \in DOMAIN argmap.kwargs :
                                              argmap.kwargs[i].name = n].value]
        IN  CASE f.fn.native = "DataFrame" -> DataFrameImpl(ast, parsed, s)
              [] f.fn.native = "subscript" -> SubscriptImpl(f.node, ast, parsed, s)
              [] OTHER -> FuncDefHandler(f.fn.scope, names, f.fn.annots, f.fn.body,
                                         ast, parsed, s)

-----------------------------------------------------------------------------
(* Statements.                                                              *)

RECURSIVE RunItems(_, _, _, _, _)
RECURSIVE BindAliases(_, _, _, _, _, _, _)
RECURSIVE ParseFuncArgs(_, _, _, _, _, _)
RECURSIVE Decorate(_, _, _, _, _)

ProcessExprStmtNode(e, cur, s) == Visit(e.expr, EmptyContext, cur, s)

ProcessDocString(doc_string, s) ==
    Ok(ExprObject(s.next_id), CreateNode(s, StringIR(doc_string, doc_string.doc)))

ProcessFuncDefDocString(body, s) ==
    IF Len(body.items) = 0 \/ body.items[1].type # "DocString"
    THEN Ok(ExprObject(s.next_id), CreateNode(s, StringIR(body, "")))
    ELSE ProcessDocString(body.items[1], s)

ProcessFuncDefReturn(ret, cur, s) ==
    IF ret.value.type = "Null" THEN Ok(NoneObject, s)
    ELSE Visit(ret.value, EmptyContext, cur, s)

AsNameFromAlias(alias) ==
    IF alias.as_name.type = "Null" THEN alias.name.id ELSE alias.as_name.id

\* ProcessImport with a slip: the module is bound under its own name, alias
\* or not.
ProcessImportBindsName(import, cur, s) ==
    LET alias == import.names
        name == alias.name.id
    IN  IF name \notin DOMAIN s.module_handler
        THEN Fail(CreateAstError(import, "ModuleNotFoundError: No module named", name), s)
        ELSE Ok(NullObj, Add(s, cur, name, s.module_handler[name]))

ProcessImport(import, cur, s) ==
    LET alias == import.names
        name == alias.name.id
        as_name == AsNameFromAlias(alias)
    IN  IF name \notin DOMAIN s.module_handler
        THEN Fail(CreateAstError(import, "ModuleNotFoundError: No module named", name), s)
        ELSE Ok(NullObj, Add(s, cur, as_name, s.module_handler[name]))

\* BindAliases with a slip: an alias the module has no attribute for is passed
\* over and the loop goes on.
BindAliasesSkipsMissing(from, module, obj, aliases, i, cur, s) ==
    LET WithAttr(as_name, attr) ==
            IF ~attr.ok THEN attr
            ELSE BindAliases(from, module, obj, aliases, i + 1, cur,
                             Add(attr.st, cur, as_name, attr.obj))
        WithAlias(alias) ==
            IF ~HasAttribute(obj, alias.name.id)
            THEN BindAliases(from, module, obj, aliases, i + 1, cur, s)
            ELSE WithAttr(AsNameFromAlias(alias),
                          GetAttribute(obj, from, alias.name.id, s))
    IN  IF i > Len(aliases) THEN Ok(NullObj, s) ELSE WithAlias(aliases[i])

\* The loop of ProcessImportFrom over the aliases, from the i-th on.
BindAliases(from, module, obj, aliases, i, cur, s) ==
    LET WithAttr(as_name, attr) ==
            IF ~attr.ok THEN attr
            ELSE BindAliases(from, module, obj, aliases, i + 1, cur,
                             Add(attr.st, cur, as_name, attr.obj))
        WithAlias(alias) ==
            IF ~HasAttribute(obj, alias.name.id)
            THEN Fail(CreateAstError(from, "cannot import name", alias.name.id), s)
            ELSE WithAttr(AsNameFromAlias(alias),
                          GetAttribute(obj, from, alias.name.id, s))
    IN  IF i > Len(aliases) THEN Ok(NullObj, s) ELSE WithAlias(aliases[i])

ProcessImportFrom(from, cur, s) ==
    IF from.level # 0
    THEN Fail(PlainError("Unexpected import level, expected 0", ""), s)
    ELSE
    LET module == from.module.id
    IN  IF module \notin DOMAIN s.module_handler
        THEN Fail(CreateAstError(from, "ModuleNotFoundError: No module named", module), s)
        ELSE IF from.names.type \notin {"Tuple", "Alias"}
        THEN Fail(CreateAstError(from.names, "Unexpected type in import statement",
                                 from.names.type), s)
        ELSE BindAliases(from, module, s.module_handler[module],
                         IF from.names.type = "Tuple" THEN from.names.elements
                         ELSE <<from.names>>,
                         1, cur, s)

\* The column node made for the left-hand side of a map-assignment is noted
\* in s.lhs_cols when the left-hand side has been evaluated.
NoteTarget(r) ==
    IF r.ok /\ r.obj.kind = "Expr" /\ r.st.nodes[r.obj.node].type = "Column"
    THEN [r EXCEPT !.st.lhs_cols = @ \cup {r.obj.node}]
    ELSE r

\* The record of a finished map-assignment: the visitor's table, the target
\* and the tables before and after.
NoteAssignment(r, assign_target, parent_df, cur, before) ==
    [r EXCEPT !.st.massigns =
        Append(@, [cur |-> cur, target |-> assign_target, parent_df |-> parent_df,
                   scopes_before |-> before.scopes, scopes_after |-> r.st.scopes,
                   next_before |-> before.next_id, ok |-> r.ok])]

\* ProcessMapAssignment with a slip: the column of the left-hand side is not
\* deleted.
ProcessMapAssignmentKeepsColumn(assign_target, parent_df, target_node, expr_node, cur, s) ==
    LET WithDataframe(target_column, dataframe) ==
            IF ~dataframe.ok THEN dataframe
            ELSE Ok(NullObj, Add(dataframe.st, cur, assign_target.id, dataframe.obj))
        WithExprVal(target_column, expr_val) ==
            IF ~expr_val.ok THEN expr_val
            ELSE WithDataframe(target_column,
                               FromColumnAssignment(parent_df, expr_node, target_column,
                                                    expr_val.obj, expr_val.st))
        WithExpr(target_column, expr_obj) ==
            IF ~expr_obj.ok THEN expr_obj
            ELSE WithExprVal(target_column,
                             GetArgAs(expr_obj.obj, ExpressionTypes, "assignment value",
                                      expr_node, expr_obj.st))
        WithTarget(target_column) ==
            IF ~target_column.ok THEN target_column
            ELSE IF parent_df.node = 0
            THEN Fail(CreateAstError(assign_target,
                        "Cannot assign column to dataframe that does not contain an operator",
                        ""), s)
            ELSE WithExpr(target_column.obj,
                          Visit(expr_node,
                                OperatorContext(<<parent_df.node>>, kMapOpId,
                                                <<assign_target.id>>),
                                cur, s))
    IN  IF assign_target.type # "Name"
        THEN Fail(CreateAstError(assign_target,
                                 "Can only assign to Dataframe by subscript from Name",
                                 assign_target.type), s)
        ELSE WithTarget(GetArgAs(target_node, {"Column"}, "assignment value",
                                 assign_target, s))

\* ProcessMapAssignment with a slip: the name is bound to the Dataframe it
\* was bound to, not to the new one.
ProcessMapAssignmentBindsParent(assign_target, parent_df, target_node, expr_node, cur, s) ==
    LET WithDataframe(target_column, dataframe) ==
            IF ~dataframe.ok THEN dataframe
            ELSE DeleteNode(Add(dataframe.st, cur, assign_target.id, parent_df),
                            target_column)
        WithExprVal(target_column, expr_val) ==
            IF ~expr_val.ok THEN expr_val
            ELSE WithDataframe(target_column,
                               FromColumnAssignment(parent_df, expr_node, target_column,
                                                    expr_val.obj, expr_val.st))
        WithExpr(target_column, expr_obj) ==
            IF ~expr_obj.ok THEN expr_obj
            ELSE WithExprVal(target_column,
                             GetArgAs(expr_obj.obj, ExpressionTypes, "assignment value",
                                      expr_node, expr_obj.st))
        WithTarget(target_column) ==
            IF ~target_column.ok THEN target_column
            ELSE IF parent_df.node = 0
            THEN Fail(CreateAstError(assign_target,
                        "Cannot assign column to dataframe that does not contain an operator",
                        ""), s)
            ELSE WithExpr(target_column.obj,
                          Visit(expr_node,
                                OperatorContext(<<parent_df.node>>, kMapOpId,
                                                <<assign_target.id>>),
                                cur, s))
    IN  IF assign_target.type # "Name"
        THEN Fail(CreateAstError(assign_target,
                                 "Can only assign to Dataframe by subscript from Name",
                                 assign_target.type), s)
        ELSE WithTarget(GetArgAs(target_node, {"Column"}, "assignment value",
                                 assign_target, s))

ProcessMapAssignment(assign_target, parent_df, target_node, expr_node, cur, s) ==
    LET WithDataframe(target_column, dataframe) ==
            IF ~dataframe.ok THEN dataframe
            ELSE DeleteNode(Add(dataframe.st, cur, assign_target.id, dataframe.obj),
                            target_column)
        WithExprVal(target_column, expr_val) ==
            IF ~expr_val.ok THEN expr_val
            ELSE WithDataframe(target_column,
                               FromColumnAssignment(parent_df, expr_node, target_column,
                                                    expr_val.obj, expr_val.st))
        WithExpr(target_column, expr_obj) ==
            IF ~expr_obj.ok THEN expr_obj
            ELSE WithExprVal(target_column,
                             GetArgAs(expr_obj.obj, ExpressionTypes, "assignment value",
                                      expr_node, expr_obj.st))
        WithTarget(target_column) ==
            IF ~target_column.ok THEN target_column
            ELSE IF parent_df.node = 0
            THEN Fail(CreateAstError(assign_target,
                        "Cannot assign column to dataframe that does not contain an operator",
                        ""), s)
            ELSE WithExpr(target_column.obj,
                          Visit(expr_node,
                                OperatorContext(<<parent_df.node>>, kMapOpId,
                                                <<assign_target.id>>),
                                cur, s))
    IN  IF assign_target.type # "Name"
        THEN Fail(CreateAstError(assign_target,
                                 "Can only assign to Dataframe by subscript from Name",
                                 assign_target.type), s)
        ELSE WithTarget(GetArgAs(target_node, {"Column"}, "assignment value",
                                 assign_target, s))

ProcessSubscriptAssignment(subscript, expr_node, cur, s) ==
    LET WithTable(processed_node, processed_target_table) ==
            IF ~processed_target_table.ok THEN processed_target_table
            ELSE IF processed_target_table.obj.kind # "Dataframe"
            THEN Fail(CreateAstError(subscript,
                                     "Can't assign to node via subscript of type",
                                     processed_target_table.obj.kind),
                      processed_target_table.st)
            ELSE NoteAssignment(
                     ProcessMapAssignment(subscript.value, processed_target_table.obj,
                                          processed_node, expr_node, cur,
                                          processed_target_table.st),
                     subscript.value, processed_target_table.obj, cur, s)
        WithNode(processed_node) ==
            IF ~processed_node.ok THEN processed_node
            ELSE WithTable(processed_node.obj,
                           Visit(subscript.value, EmptyContext, cur, processed_node.st))
    IN  WithNode(NoteTarget(Visit(subscript, EmptyContext, cur, s)))

\* An object is changed in place: every reference to it sees the change, so
\* every binding of `old` becomes `new`.
Mutated(s, old, new) ==
    LET Upd(o) == IF o = old THEN new ELSE o
    IN  [s EXCEPT !.scopes = [i \in DOMAIN s.scopes |->
                                [s.scopes[i] EXCEPT !.table =
                                    [n \in DOMAIN s.scopes[i].table |->
                                        Upd(s.scopes[i].table[n])]]],
                  !.module_handler = [m \in DOMAIN s.module_handler |->
                                         Upd(s.module_handler[m])]]

\* defined_func->AddDocString(doc_string): the function keeps the text of the
\* String node.
AddDocString(func, doc_string) ==
    [func EXCEPT !.fn.doc = doc_string.st.nodes[doc_string.obj.node].s]

\* obj->AssignAttribute(name, value): every reference to the object sees the
\* new attribute, so every binding of the object is updated.
AssignAttribute(target, attr_name, value, s) ==
    LET new == [target EXCEPT !.attrs =
                    [n \in DOMAIN target.attrs \cup {attr_name} |->
                        IF n = attr_name THEN value ELSE target.attrs[n]]]
        Upd(o) == IF o = target THEN new ELSE o
    IN  Ok(NullObj,
           [s EXCEPT !.scopes = [i \in DOMAIN s.scopes |->
                                   [s.scopes[i] EXCEPT !.table =
                                       [n \in DOMAIN s.scopes[i].table |->
                                           Upd(s.scopes[i].table[n])]]],
                     !.module_handler = [m \in DOMAIN s.module_handler |->
                                            Upd(s.module_handler[m])]])

\* ProcessAttributeAssignment with a slip: for a target that is no Dataframe
\* the right-hand side is evaluated only if it is a Call.
ProcessAttributeAssignmentCallOnly(attr, expr_node, cur, s) ==
    LET WithValue(target, attr_name, processed_value) ==
            IF ~processed_value.ok THEN processed_value
            ELSE AssignAttribute(target, attr_name, processed_value.obj,
                                 processed_value.st)
        WithAttrName(target, attr_name) ==
            IF ~attr_name.ok THEN attr_name
            ELSE IF expr_node.type # "Call"
            THEN Fail(CreateAstError(expr_node, "Expression node not defined",
                                     expr_node.type), attr_name.st)
            ELSE WithValue(target, attr_name.obj,
                           Visit(expr_node, EmptyContext, cur, attr_name.st))
        WithNode(target, processed_node) ==
            IF ~processed_node.ok THEN processed_node
            ELSE NoteAssignment(
                     ProcessMapAssignment(attr.value, target, processed_node.obj,
                                          expr_node, cur, processed_node.st),
                     attr.value, target, cur, s)
        WithTarget(processed_target) ==
            IF ~processed_target.ok THEN processed_target
            ELSE IF processed_target.obj.kind # "Dataframe"
            THEN WithAttrName(processed_target.obj,
                              GetAttributeStr(attr, processed_target.st))
            ELSE WithNode(processed_target.obj,
                          NoteTarget(Visit(attr, EmptyContext, cur, processed_target.st)))
    IN  WithTarget(Visit(attr.value, EmptyContext, cur, s))

\* ProcessAttributeAssignment with a slip: a Dataframe target is handed to
\* AssignAttribute like any other object.
ProcessAttributeAssignmentNoMap(attr, expr_node, cur, s) ==
    LET WithValue(target, attr_name, processed_value) ==
            IF ~processed_value.ok THEN processed_value
            ELSE AssignAttribute(target, attr_name, processed_value.obj,
                                 processed_value.st)
        WithAttrName(target, attr_name) ==
            IF ~attr_name.ok THEN attr_name
            ELSE WithValue(target, attr_name.obj,
                           Visit(expr_node, EmptyContext, cur, attr_name.st))
        WithTarget(processed_target) ==
            IF ~processed_target.ok THEN processed_target
            ELSE WithAttrName(processed_target.obj,
                              GetAttributeStr(attr, processed_target.st))
    IN  WithTarget(Visit(attr.value, EmptyContext, cur, s))

\* For a target that is no Dataframe the code calls
\* Process(PYPA_PTR_CAST(Call, expr_node), ...): the cast changes the static
\* type of the pointer and leaves the node as it is, no member of the Call is
\* read, and Process switches on node->type, the node's own kind.
ProcessAttributeAssignment(attr, expr_node, cur, s) ==
    LET WithValue(target, attr_name, processed_value) ==
            IF ~processed_value.ok THEN processed_value
            ELSE AssignAttribute(target, attr_name, processed_value.obj,
                                 processed_value.st)
        WithAttrName(target, attr_name) ==
            IF ~attr_name.ok THEN attr_name
            ELSE WithValue(target, attr_name.obj,
                           Visit(expr_node, EmptyContext, cur, attr_name.st))
        WithNode(target, processed_node) ==
            IF ~processed_node.ok THEN processed_node
            ELSE NoteAssignment(
                     ProcessMapAssignment(attr.value, target, processed_node.obj,
                                          expr_node, cur, processed_node.st),
                     attr.value, target, cur, s)
        WithTarget(processed_target) ==
            IF ~processed_target.ok THEN processed_target
            ELSE IF processed_target.obj.kind # "Dataframe"
            THEN WithAttrName(processed_target.obj,
                              GetAttributeStr(attr, processed_target.st))
            ELSE WithNode(processed_target.obj,
                          NoteTarget(Visit(attr, EmptyContext, cur, processed_target.st)))
    IN  WithTarget(Visit(attr.value, EmptyContext, cur, s))

\* ProcessAssignNode with a slip: the number of targets is not checked; the
\* first target is assigned to, and nothing is done if there is none.
ProcessAssignNodeFirstTarget(node, cur, s) ==
    LET target_node == node.targets[1]
        Bind(processed_node) ==
            IF ~processed_node.ok THEN processed_node
            ELSE Ok(NullObj, Add(processed_node.st, cur, target_node.id,
                                 processed_node.obj))
    IN  IF Len(node.targets) = 0 THEN Ok(NullObj, s)
        ELSE IF target_node.type = "Subscript"
        THEN ProcessSubscriptAssignment(target_node, node.value, cur, s)
        ELSE IF target_node.type = "Attribute"
        THEN ProcessAttributeAssignment(target_node, node.value, cur, s)
        ELSE IF target_node.type # "Name"
        THEN Fail(CreateAstError(target_node,
                                 "Assignment target must be a Name or Subscript", ""), s)
        ELSE Bind(Visit(node.value, EmptyContext, cur, s))

ProcessAssignNode(node, cur, s) ==
    LET target_node == node.targets[1]
        Bind(processed_node) ==
            IF ~processed_node.ok THEN processed_node
            ELSE Ok(NullObj, Add(processed_node.st, cur, target_node.id,
                                 processed_node.obj))
    IN  IF Len(node.targets) # 1
        THEN Fail(CreateAstError(node, "We only support single target assignment.", ""), s)
        ELSE IF target_node.type = "Subscript"
        THEN ProcessSubscriptAssignment(target_node, node.value, cur, s)
        ELSE IF target_node.type = "Attribute"
        THEN ProcessAttributeAssignment(target_node, node.value, cur, s)
        ELSE IF target_node.type # "Name"
        THEN Fail(CreateAstError(target_node,
                                 "Assignment target must be a Name or Subscript", ""), s)
        ELSE Bind(Visit(node.value, EmptyContext, cur, s))

\* The loop of ProcessFunctionDefNode over the parameters, from the i-th on:
\* the names and the annotation objects, evaluated in the defining scope.
ParseFuncArgs(arguments, i, parsed_arg_names, arg_annotations_objs, cur, s) ==
    LET WithAnnotation(arg, annotation_obj) ==
            IF ~annotation_obj.ok THEN annotation_obj
            ELSE ParseFuncArgs(arguments, i + 1, Append(parsed_arg_names, arg.arg),
                               [n \in DOMAIN arg_annotations_objs \cup {arg.arg} |->
                                   IF n = arg.arg THEN annotation_obj.obj
                                   ELSE arg_annotations_objs[n]],
                               cur, annotation_obj.st)
        WithArg(arg) ==
            IF arg.type # "Arg"
            THEN Fail(CreateAstError(arg, "function parameter must be an argument",
                                     arg.type), s)
            ELSE IF arg.annotation.type = "Null"
            THEN ParseFuncArgs(arguments, i + 1, Append(parsed_arg_names, arg.arg),
                               arg_annotations_objs, cur, s)
            ELSE WithAnnotation(arg, Visit(arg.annotation, EmptyContext, cur, s))
    IN  IF i > Len(arguments)
        THEN Ok([names |-> parsed_arg_names, annots |-> arg_annotations_objs], s)
        ELSE WithArg(arguments[i])

\* Decorate with a slip: the decorator is called and the function goes on
\* undecorated.
DecorateKeepsFunction(decorators, i, defined_func, cur, s) ==
    LET WithCallable(g) ==
            IF ~g.ok THEN g ELSE Decorate(decorators, i + 1, defined_func, cur, g.st)
        WithDecorated(d, object_fn) ==
            IF ~object_fn.ok THEN object_fn
            ELSE WithCallable(GetCallMethod(d, object_fn.obj, object_fn.st))
        WithMethod(d, fn_object) ==
            IF ~fn_object.ok THEN fn_object
            ELSE WithDecorated(d, Invoke(fn_object.obj,
                                         [args |-> <<defined_func>>, kwargs |-> <<>>],
                                         d, fn_object.st))
        WithDecorator(d, dec_fn) ==
            IF ~dec_fn.ok THEN dec_fn
            ELSE WithMethod(d, GetCallMethod(d, dec_fn.obj, dec_fn.st))
    IN  IF i > Len(decorators) THEN Ok(defined_func, s)
        ELSE WithDecorator(decorators[i],
                           Visit(decorators[i], OperatorContext(<<>>, "", <<>>), cur, s))

\* The loop of ProcessFunctionDefNode over the decorators, from the i-th on.
Decorate(decorators, i, defined_func, cur, s) ==
    LET WithCallable(g) ==
            IF ~g.ok THEN g ELSE Decorate(decorators, i + 1, g.obj, cur, g.st)
        WithDecorated(d, object_fn) ==
            IF ~object_fn.ok THEN object_fn
            ELSE WithCallable(GetCallMethod(d, object_fn.obj, object_fn.st))
        WithMethod(d, fn_object) ==
            IF ~fn_object.ok THEN fn_object
            ELSE WithDecorated(d, Invoke(fn_object.obj,
                                         [args |-> <<defined_func>>, kwargs |-> <<>>],
                                         d, fn_object.st))
        WithDecorator(d, dec_fn) ==
            IF ~dec_fn.ok THEN dec_fn
            ELSE WithMethod(d, GetCallMethod(d, dec_fn.obj, dec_fn.st))
    IN  IF i > Len(decorators) THEN Ok(defined_func, s)
        ELSE WithDecorator(decorators[i],
                           Visit(decorators[i], OperatorContext(<<>>, "", <<>>), cur, s))

\* FuncObject::ResolveArgAnnotationsToTypes: the annotations that are Type
\* objects become the function's arg_types.
ResolveArgAnnotationsToTypes(func, arg_annotation_objs) ==
    [func EXCEPT !.fn.arg_types =
        [n \in {m \in DOMAIN arg_annotation_objs : arg_annotation_objs[m].kind = "Type"}
            |-> arg_annotation_objs[n]]]

\* ProcessFunctionDefNode with a slip: default values, *args and **kwargs are
\* not looked at.
ProcessFunctionDefNodeAnyParams(node, cur, s) ==
    LET WithDoc(annots, defined_func, doc_string) ==
            IF ~doc_string.ok THEN doc_string
            ELSE Ok(NullObj,
                    Add(Mutated(doc_string.st, defined_func,
                                ResolveArgAnnotationsToTypes(
                                    AddDocString(defined_func, doc_string), annots)),
                        cur, node.name.id,
                        ResolveArgAnnotationsToTypes(
                            AddDocString(defined_func, doc_string), annots)))
        WithFunc(annots, defined_func) ==
            IF ~defined_func.ok THEN defined_func
            ELSE WithDoc(annots, defined_func.obj,
                         ProcessFuncDefDocString(node.body, defined_func.st))
        WithArgs(parsed) ==
            IF ~parsed.ok THEN parsed
            ELSE IF node.name.type # "Name"
            THEN Fail(CreateAstError(node.name, "function definition must be a name",
                                     node.name.type), parsed.st)
            ELSE IF node.body.type # "Suite"
            THEN Fail(CreateAstError(node.body, "function body not allowed",
                                     node.body.type), parsed.st)
            ELSE WithFunc(parsed.obj.annots,
                          Decorate(node.decorators, 1,
                                   FuncObject(node.name.id, parsed.obj.names,
                                              parsed.obj.annots, node.body, cur, "", 0),
                                   cur, parsed.st))
    IN  WithArgs(ParseFuncArgs(node.args.arguments, 1, <<>>, <<>>, cur, s))

ProcessFunctionDefNode(node, cur, s) ==
    LET WithDoc(annots, defined_func, doc_string) ==
            IF ~doc_string.ok THEN doc_string
            ELSE Ok(NullObj,
                    Add(Mutated(doc_string.st, defined_func,
                                ResolveArgAnnotationsToTypes(
                                    AddDocString(defined_func, doc_string), annots)),
                        cur, node.name.id,
                        ResolveArgAnnotationsToTypes(
                            AddDocString(defined_func, doc_string), annots)))
        WithFunc(annots, defined_func) ==
            IF ~defined_func.ok THEN defined_func
            ELSE WithDoc(annots, defined_func.obj,
                         ProcessFuncDefDocString(node.body, defined_func.st))
        WithArgs(parsed) ==
            IF ~parsed.ok THEN parsed
            ELSE IF \E i \in DOMAIN node.args.defaults : node.args.defaults[i].type # "Null"
            THEN Fail(CreateAstError(
                          node.args.defaults[CHOOSE i \in DOMAIN node.args.defaults :
                              /\ node.args.defaults[i].type # "Null"
                              /\ \A j \in 1..(i - 1) : node.args.defaults[j].type = "Null"],
                          "default values not supported in function definitions", ""),
                      parsed.st)
            ELSE IF node.args.args.type # "Null"
            THEN Fail(CreateAstError(node.args.args,
                        "variable length args are not supported in function definitions",
                        ""), parsed.st)
            ELSE IF node.args.kwargs.type # "Null"
            THEN Fail(CreateAstError(node.args.kwargs,
                        "variable length kwargs are not supported in function definitions",
                        ""), parsed.st)
            ELSE IF node.name.type # "Name"
            THEN Fail(CreateAstError(node.name, "function definition must be a name",
                                     node.name.type), parsed.st)
            ELSE IF node.body.type # "Suite"
            THEN Fail(CreateAstError(node.body, "function body not allowed",
                                     node.body.type), parsed.st)
            ELSE WithFunc(parsed.obj.annots,
                          Decorate(node.decorators, 1,
                                   FuncObject(node.name.id, parsed.obj.names,
                                              parsed.obj.annots, node.body, cur, "", 0),
                                   cur, parsed.st))
    IN  WithArgs(ParseFuncArgs(node.args.arguments, 1, <<>>, <<>>, cur, s))

\* The switch of ProcessASTSuite with a slip: a doc string that is not at the
\* head of the suite, and a statement of a kind without a handler, are passed
\* over.
ProcessStmtSkipsUnhandled(stmt, is_function_definition_body, cur, s0) ==
    LET s == [s0 EXCEPT !.steps = @ + 1]
    IN  CASE stmt.type = "Import" -> ProcessImport(stmt, cur, s)
          [] stmt.type = "ImportFrom" -> ProcessImportFrom(stmt, cur, s)
          [] stmt.type = "ExpressionStatement" -> ProcessExprStmtNode(stmt, cur, s)
          [] stmt.type = "Assign" -> ProcessAssignNode(stmt, cur, s)
          [] stmt.type = "FunctionDef" -> ProcessFunctionDefNode(stmt, cur, s)
          [] stmt.type = "Return" ->
                IF ~is_function_definition_body
                THEN Fail(CreateAstError(stmt, "'return' outside function", ""), s)
                ELSE [ProcessFuncDefReturn(stmt, cur, s) EXCEPT !.ret = TRUE]
          [] OTHER -> Ok(NullObj, s)

\* The switch of ProcessASTSuite with a slip: the value of a return is
\* computed and the loop goes on.
ProcessStmtReturnGoesOn(stmt, is_function_definition_body, cur, s0) ==
    LET s == [s0 EXCEPT !.steps = @ + 1]
    IN  CASE stmt.type = "Import" -> ProcessImport(stmt, cur, s)
          [] stmt.type = "ImportFrom" -> ProcessImportFrom(stmt, cur, s)
          [] stmt.type = "ExpressionStatement" -> ProcessExprStmtNode(stmt, cur, s)
          [] stmt.type = "Assign" -> ProcessAssignNode(stmt, cur, s)
          [] stmt.type = "FunctionDef" -> ProcessFunctionDefNode(stmt, cur, s)
          [] stmt.type = "DocString" ->
                Fail(CreateAstError(stmt,
                    "Doc strings are only allowed at the start of a module or function.",
                    ""), s)
          [] stmt.type = "Return" ->
                IF ~is_function_definition_body
                THEN Fail(CreateAstError(stmt, "'return' outside function", ""), s)
                ELSE ProcessFuncDefReturn(stmt, cur, s)
          [] OTHER -> Fail(CreateAstError(stmt, "Can't parse expression of type",
                                          stmt.type), s)

\* One turn of the statement loop of ProcessASTSuite: the switch over the
\* statement kind.  s.steps counts the statements evaluated.
ProcessStmt(stmt, is_function_definition_body, cur, s0) ==
    LET s == [s0 EXCEPT !.steps = @ + 1]
    IN  CASE stmt.type = "Import" -> ProcessImport(stmt, cur, s)
          [] stmt.type = "ImportFrom" -> ProcessImportFrom(stmt, cur, s)
          [] stmt.type = "ExpressionStatement" -> ProcessExprStmtNode(stmt, cur, s)
          [] stmt.type = "Assign" -> ProcessAssignNode(stmt, cur, s)
          [] stmt.type = "FunctionDef" -> ProcessFunctionDefNode(stmt, cur, s)
          [] stmt.type = "DocString" ->
                Fail(CreateAstError(stmt,
                    "Doc strings are only allowed at the start of a module or function.",
                    ""), s)
          [] stmt.type = "Return" ->
                IF ~is_function_definition_body
                THEN Fail(CreateAstError(stmt, "'return' outside function", ""), s)
                ELSE [ProcessFuncDefReturn(stmt, cur, s) EXCEPT !.ret = TRUE]
          [] OTHER -> Fail(CreateAstError(stmt, "Can't parse expression of type",
                                          stmt.type), s)

\* The record of one turn of the statement loop: the statement, its outcome
\* and the arena and the tables as it left them.
NoteStmt(r, stmt, cur) ==
    [r EXCEPT !.st.events =
        Append(@, [cur |-> cur, type |-> stmt.type, at |-> stmt.at,
                   ok |-> r.ok, ret |-> r.ret, err |-> r.err, obj |-> r.obj,
                   nodes |-> DOMAIN r.st.nodes, scopes |-> r.st.scopes])]

\* The statement loop of ProcessASTSuite with a slip: a statement that fails
\* is passed over and the loop goes on with the next one.
RunItemsSkipsFailed(items_list, i, is_function_definition_body, cur, s) ==
    LET Continue(r) ==
            IF r.ok /\ r.ret THEN r
            ELSE RunItems(items_list, i + 1, is_function_definition_body, cur, r.st)
    IN  IF i > Len(items_list) THEN Ok(NoneObject, s)
        ELSE Continue(NoteStmt(VisitStmt(items_list[i], is_function_definition_body,
                                         cur, s),
                               items_list[i], cur))

\* The statement loop of ProcessASTSuite, from the i-th item on.
RunItems(items_list, i, is_function_definition_body, cur, s) ==
    LET Continue(r) ==
            IF ~r.ok \/ r.ret THEN r
            ELSE RunItems(items_list, i + 1, is_function_definition_body, cur, r.st)
    IN  IF i > Len(items_list) THEN Ok(NoneObject, s)
        ELSE Continue(NoteStmt(VisitStmt(items_list[i], is_function_definition_body,
                                         cur, s),
                               items_list[i], cur))

\* The head of ProcessASTSuite with a slip: the doc string is bound as __doc__
\* in a function body as it is in a module.
SuiteHeadBindsInBody(body, is_function_definition_body, cur, s) ==
    IF body.items[1].type = "DocString"
    THEN LET doc_string == ProcessDocString(body.items[1], s)
         IN  Ok(Tail(body.items), Add(doc_string.st, cur, "__doc__", doc_string.obj))
    ELSE Ok(body.items,
            Add(CreateNode(s, StringIR(body, "")), cur, "__doc__", ExprObject(s.next_id)))

\* The head of ProcessASTSuite: the doc string of a module is bound as
\* __doc__ (an empty one if the suite does not start with a doc string); the
\* result holds the items left to run.
SuiteHead(body, is_function_definition_body, cur, s) ==
    IF body.items[1].type = "DocString"
    THEN IF ~is_function_definition_body
         THEN LET doc_string == ProcessDocString(body.items[1], s)
              IN  Ok(Tail(body.items), Add(doc_string.st, cur, "__doc__", doc_string.obj))
         ELSE Ok(Tail(body.items), s)
    ELSE IF ~is_function_definition_body
         THEN Ok(body.items,
                 Add(CreateNode(s, StringIR(body, "")), cur, "__doc__",
                     ExprObject(s.next_id)))
         ELSE Ok(body.items, s)

\* The record of a finished suite: its outcome, the turns of its own statement
\* loop, and the arena and the tables before it and as it left them.
NoteSuite(r, body, is_function_definition_body, cur, before) ==
    LET Own(e) == e.cur = cur
    IN  [r EXCEPT !.st.suites =
            Append(@, [body |-> body, fn |-> is_function_definition_body, cur |-> cur,
                       ok |-> r.ok, ret |-> r.ret, err |-> r.err, obj |-> r.obj,
                       stmts |-> SelectSeq(SubSeq(r.st.events, Len(before.events) + 1,
                                                  Len(r.st.events)), Own),
                       nodes_before |-> DOMAIN before.nodes,
                       nodes |-> DOMAIN r.st.nodes,
                       scopes_before |-> before.scopes,
                       scopes |-> r.st.scopes])]

ProcessASTSuite(body, is_function_definition_body, cur, s) ==
    LET WithHead(head) ==
            IF ~head.ok THEN head
            ELSE RunItems(head.obj, 1, is_function_definition_body, cur, head.st)
    IN  NoteSuite(IF Len(body.items) = 0
                  THEN Fail(CreateAstError(body, "No runnable code found", ""), s)
                  ELSE WithHead(SuiteHead(body, is_function_definition_body, cur, s)),
                  body, is_function_definition_body, cur, s)

\* The nested evaluations, by the name of the operator to run.
Eval(op, a) ==
    CASE op = "Process" -> Process(a[1], a[2], a[3], a[4])
      [] op = "FuncObjectCall" -> FuncObjectCall(a[1], a[2], a[3], a[4])
      [] op = "ProcessASTSuite" -> ProcessASTSuite(a[1], a[2], a[3], a[4])
      [] op = "ProcessStmt" -> ProcessStmt(a[1], a[2], a[3], a[4])

-----------------------------------------------------------------------------
(* Creation of the evaluator.                                               *)

kStringTypeName == "string"
kIntTypeName == "int"
kFloatTypeName == "float"
kBoolTypeName == "bool"
kNoneName == "None"
kTrueName == "True"
kFalseName == "False"
kPixieModuleObjName == "px"
kMainFuncId == "main"

\* The visitor's root table is table 1.
RootTable == 1

\* The evaluator state the constructor leaves: an empty arena whose first node
\* id is 1, the empty root table and an empty module handler.
NewVisitor ==
    [nodes |-> <<>>, next_id |-> 1,
     scopes |-> <<[parent |-> 0, table |-> <<>>]>>,
     module_handler |-> <<>>,
     ub |-> "ends_equal",
     dchecks |-> FALSE,
     lhs_cols |-> {}, deleted |-> {}, calls |-> <<>>, massigns |-> <<>>, steps |-> 0,
     coerced |-> <<>>, unops |-> <<>>, events |-> <<>>, suites |-> <<>>]

\* CreateBoolLiterals with a slip: the two literals are swapped.
CreateBoolLiteralsSwapped(s) ==
    LET bool_ast == [type |-> "Bool", at |-> <<0, 0>>]
        s1 == CreateNode(s, BoolIR(bool_ast, FALSE))
        s2 == Add(s1, RootTable, kTrueName, ExprObject(s.next_id))
        s3 == CreateNode(s2, BoolIR(bool_ast, TRUE))
    IN  Ok(NullObj, Add(s3, RootTable, kFalseName, ExprObject(s2.next_id)))

CreateBoolLiterals(s) ==
    LET bool_ast == [type |-> "Bool", at |-> <<0, 0>>]
        s1 == CreateNode(s, BoolIR(bool_ast, TRUE))
        s2 == Add(s1, RootTable, kTrueName, ExprObject(s.next_id))
        s3 == CreateNode(s2, BoolIR(bool_ast, FALSE))
    IN  Ok(NullObj, Add(s3, RootTable, kFalseName, ExprObject(s2.next_id)))

InitGlobals(s) ==
    LET s1 == Add(s, RootTable, kStringTypeName, TypeObject("String", "STRING"))
        s2 == Add(s1, RootTable, kIntTypeName, TypeObject("Int", "INT64"))
        s3 == Add(s2, RootTable, kFloatTypeName, TypeObject("Float", "FLOAT64"))
        s4 == Add(s3, RootTable, kBoolTypeName, TypeObject("Bool", "BOOLEAN"))
        s5 == Add(s4, RootTable, kNoneName, NoneObject)
    IN  CreateBoolLiterals(s5)

\* PixieModule::Create: the platform module; of its attributes the model has
\* the Dataframe constructor.
PixieModule ==
    ModuleObject(kPixieModuleObjName,
                 [n \in {"DataFrame"} |->
                     FuncObject("DataFrame", <<"table">>, <<>>, NoAst, 0, "DataFrame", 0)])

\* Module::Create(module_text, visitor): the module's text is evaluated as a
\* module suite by a module visitor on a child table of the visitor's table,
\* and the Module keeps that table.  `name` only labels the object.
ModuleCreate(name, module_text, s) ==
    LET Keep(child, r) ==
            IF ~r.ok THEN r
            ELSE Ok(ModuleObject(name, r.st.scopes[child.sid].table), r.st)
        WithChild(child) ==
            Keep(child, VisitSuite(module_text, FALSE, child.sid, child.st))
    IN  WithChild(CreateChild(s, RootTable))

RECURSIVE CreateModules(_, _, _)
\* The loop of SetupModules over the module map, in the order `modules` lists
\* it: each module is created and then put into the module handler.
CreateModules(modules, i, s) ==
    LET Register(m) ==
            IF ~m.ok THEN m
            ELSE CreateModules(modules, i + 1,
                     [m.st EXCEPT !.module_handler =
                         [n \in DOMAIN m.st.module_handler \cup {modules[i].name} |->
                             IF n = modules[i].name THEN m.obj
                             ELSE m.st.module_handler[n]]])
    IN  IF i > Len(modules) THEN Ok(NullObj, s)
        ELSE Register(ModuleCreate(modules[i].name, modules[i].text, s))

SetupModules(module_name_to_pxl_map, s) ==
    CreateModules(module_name_to_pxl_map, 1,
                  [s EXCEPT !.module_handler =
                      [n \in {kPixieModuleObjName} |-> PixieModule]])

\* ASTVisitorImpl::Create(graph, ..., module_map).
Create(module_map) ==
    LET WithGlobals(g) == IF ~g.ok THEN g ELSE SetupModules(module_map, g.st)
    IN  WithGlobals(InitGlobals(NewVisitor))

-----------------------------------------------------------------------------
(* Single expressions.                                                      *)

\* pypa::AstModule: the parse of a text; its body is the suite of statements.
Module(at, items) == [type |-> "Module", at |-> at, body |-> Suite(at, items)]

\* Parser::Parse(text, parse_doc_strings = false): the module, or the parser's
\* error for a text that is no script.
Parsed(module) == [ok |-> TRUE, module |-> module]
NotParsed == [ok |-> FALSE, module |-> NoAst]

ProcessSingleExpressionModule(module, cur, s) ==
    LET items_list == module.body.items
        stmt == items_list[1]
    IN  IF Len(items_list) # 1
        THEN Fail(CreateAstError(module,
                 "ProcessModuleExpression only works for single lined statements.", ""), s)
        ELSE IF stmt.type = "ExpressionStatement"
        THEN Visit(stmt.expr, EmptyContext, cur, s)
        ELSE Fail(CreateAstError(module, "Want expression, got", stmt.type), s)

\* ParseAndProcessSingleExpression with a slip: the platform module is bound
\* in the visitor's own table and the expression is evaluated there.
ParseAndProcessSingleExpressionNoChild(ast, import_px, cur, s) ==
    IF ~ast.ok THEN Fail(PlainError("SyntaxError", ""), s)
    ELSE IF import_px
    THEN ProcessSingleExpressionModule(
             ast.module, cur,
             Add(s, cur, kPixieModuleObjName, s.module_handler[kPixieModuleObjName]))
    ELSE ProcessSingleExpressionModule(ast.module, cur, s)

\* ParseAndProcessSingleExpression(single_expr_str, import_px), with `ast` the
\* outcome of parsing single_expr_str.
ParseAndProcessSingleExpression(ast, import_px, cur, s) ==
    LET InChild(child_visitor) ==
            ProcessSingleExpressionModule(
                ast.module, child_visitor.sid,
                Add(child_visitor.st, child_visitor.sid, kPixieModuleObjName,
                    child_visitor.st.module_handler[kPixieModuleObjName]))
    IN  IF ~ast.ok THEN Fail(PlainError("SyntaxError", ""), s)
        ELSE IF import_px THEN InChild(CreateChild(s, cur))
        ELSE ProcessSingleExpressionModule(ast.module, cur, s)

-----------------------------------------------------------------------------
(* The exec entry.                                                          *)

RECURSIVE ExecArgsLoop(_, _, _, _, _, _)
RECURSIVE ExecFuncsLoop(_, _, _, _)
RECURSIVE SinkLoop(_, _, _, _, _)

\* absl::SimpleAtob, absl::SimpleAtoi and absl::SimpleAtod on the argument
\* strings of the model: the value, or no entry when the parse fails.
SimpleAtob ==
    [v \in {"true", "false", "1", "0"} |-> v \in {"true", "1"}]

SimpleAtoi ==
    [v \in {"1", "0", "42"} |-> CASE v = "1" -> 1 [] v = "0" -> 0 [] OTHER -> 42]

\* Float values are held in tenths.
SimpleAtod ==
    [v \in {"1", "0", "42", "2.5"} |->
        CASE v = "1" -> 10 [] v = "0" -> 0 [] v = "42" -> 420 [] OTHER -> 25]

\* ParseStringAsType with a slip: a duration becomes an Int literal.
ParseStringAsTypeDurationInt(ast, value, type, s) ==
    CASE type.dt = "BOOLEAN" ->
            IF value \notin DOMAIN SimpleAtob
            THEN Fail(CreateAstError(ast, "Failed to parse arg as bool.", value), s)
            ELSE Ok(ExprObject(s.next_id), CreateNode(s, BoolIR(ast, SimpleAtob[value])))
      [] type.dt = "STRING" ->
            Ok(ExprObject(s.next_id), CreateNode(s, StringIR(ast, value)))
      [] type.dt = "INT64" ->
            IF value \notin DOMAIN SimpleAtoi
            THEN Fail(CreateAstError(ast, "Failed to parse arg as int64.", value), s)
            ELSE Ok(ExprObject(s.next_id), CreateNode(s, IntIR(ast, SimpleAtoi[value])))
      [] type.dt = "FLOAT64" ->
            IF value \notin DOMAIN SimpleAtod
            THEN Fail(CreateAstError(ast, "Failed to parse arg as float64.", value), s)
            ELSE Ok(ExprObject(s.next_id),
                    CreateNode(s, IRNode("Float", FALSE, SimpleAtod[value], "", <<>>, <<>>,
                                         ast.at)))
      [] type.dt \in {"DURATION64NS", "TIME64NS"} ->
            IF value \notin DOMAIN SimpleAtoi
            THEN Fail(CreateAstError(ast, "Failed to parse arg as time.", value), s)
            ELSE Ok(ExprObject(s.next_id),
                    CreateNode(s, IF type.dt = "DURATION64NS"
                                  THEN IntIR(ast, SimpleAtoi[value])
                                  ELSE IRNode("Time", FALSE, SimpleAtoi[value], "", <<>>,
                                              <<>>, ast.at)))
      [] type.dt = "UINT128" ->
            Fail(CreateAstError(ast, "Passing arg of type UINT128 is currently unsupported.",
                                ""), s)
      [] OTHER ->
            Fail(CreateAstError(ast,
                "All arguments to executed functions must have an underlying concrete type.",
                ""), s)

ParseStringAsType(ast, value, type, s) ==
    CASE type.dt = "BOOLEAN" ->
            IF value \notin DOMAIN SimpleAtob
            THEN Fail(CreateAstError(ast, "Failed to parse arg as bool.", value), s)
            ELSE Ok(ExprObject(s.next_id), CreateNode(s, BoolIR(ast, SimpleAtob[value])))
      [] type.dt = "STRING" ->
            Ok(ExprObject(s.next_id), CreateNode(s, StringIR(ast, value)))
      [] type.dt = "INT64" ->
            IF value \notin DOMAIN SimpleAtoi
            THEN Fail(CreateAstError(ast, "Failed to parse arg as int64.", value), s)
            ELSE Ok(ExprObject(s.next_id), CreateNode(s, IntIR(ast, SimpleAtoi[value])))
      [] type.dt = "FLOAT64" ->
            IF value \notin DOMAIN SimpleAtod
            THEN Fail(CreateAstError(ast, "Failed to parse arg as float64.", value), s)
            ELSE Ok(ExprObject(s.next_id),
                    CreateNode(s, IRNode("Float", FALSE, SimpleAtod[value], "", <<>>, <<>>,
                                         ast.at)))
      [] type.dt \in {"DURATION64NS", "TIME64NS"} ->
            IF value \notin DOMAIN SimpleAtoi
            THEN Fail(CreateAstError(ast, "Failed to parse arg as time.", value), s)
            ELSE Ok(ExprObject(s.next_id),
                    CreateNode(s, IRNode("Time", FALSE, SimpleAtoi[value], "", <<>>, <<>>,
                                         ast.at)))
      [] type.dt = "UINT128" ->
            Fail(CreateAstError(ast, "Passing arg of type UINT128 is currently unsupported.",
                                ""), s)
      [] OTHER ->
            Fail(CreateAstError(ast,
                "All arguments to executed functions must have an underlying concrete type.",
                ""), s)

\* The loop of ProcessExecFuncArgs with a slip: the value is coerced before
\* the argument's name is looked up among the parameters.
ExecArgsLoopCoercesFirst(ast, func, arg_values, i, args, s) ==
    LET WithNode(arg, node) ==
            IF arg.name \notin Range(func.fn.args)
            THEN Fail(CreateAstError(ast, "Function does not have an argument called",
                                     arg.name), node.st)
            ELSE IF ~node.ok THEN node
            ELSE ExecArgsLoop(ast, func, arg_values, i + 1,
                              [args EXCEPT !.kwargs =
                                  Append(@, [name |-> arg.name, value |-> node.obj])],
                              node.st)
        WithArg(arg) ==
            WithNode(arg,
                     ParseStringAsType(ast, arg.value,
                                       IF arg.name \in DOMAIN func.fn.arg_types
                                       THEN func.fn.arg_types[arg.name]
                                       ELSE TypeObject("String", "STRING"),
                                       [s EXCEPT !.coerced = Append(@, arg.name)]))
    IN  IF i > Len(arg_values) THEN Ok(args, s) ELSE WithArg(arg_values[i])

\* The loop of ProcessExecFuncArgs over arg_values, from the i-th on; `args`
\* holds the keyword arguments made so far.  s.coerced notes the names of the
\* arguments handed to ParseStringAsType.
ExecArgsLoop(ast, func, arg_values, i, args, s) ==
    LET WithNode(arg, node) ==
            IF ~node.ok THEN node
            ELSE ExecArgsLoop(ast, func, arg_values, i + 1,
                              [args EXCEPT !.kwargs =
                                  Append(@, [name |-> arg.name, value |-> node.obj])],
                              node.st)
        WithArg(arg) ==
            IF arg.name \notin Range(func.fn.args)
            THEN Fail(CreateAstError(ast, "Function does not have an argument called",
                                     arg.name), s)
            ELSE IF arg.name \notin DOMAIN func.fn.arg_types
            THEN Fail(CreateAstError(ast, "Arg type annotation required.", arg.name), s)
            ELSE WithNode(arg,
                          ParseStringAsType(ast, arg.value, func.fn.arg_types[arg.name],
                                            [s EXCEPT !.coerced = Append(@, arg.name)]))
    IN  IF i > Len(arg_values) THEN Ok(args, s) ELSE WithArg(arg_values[i])

ProcessExecFuncArgs(ast, func, arg_values, s) ==
    ExecArgsLoop(ast, func, arg_values, 1, [args |-> <<>>, kwargs |-> <<>>], s)

\* SinkLoop with a slip: every sink is fed by the first item.
SinkLoopFirstItem(ast, func, items, i, s) ==
    IF i >= Len(items) THEN Ok(NullObj, s)
    ELSE
    LET obj == items[i + 1]
    IN  IF obj.kind # "Dataframe"
        THEN Fail(CreateAstError(ast, "All returned objects must be dataframes.",
                                 func.func_name), s)
        ELSE SinkLoop(ast, func, items, i + 1,
                      CreateNode(s, MemorySinkIR(ast, items[1].node,
                                                 func.output_table_prefix, TRUE, i)))

\* The loop over the items of a returned Collection, from index i (0-based).
SinkLoop(ast, func, items, i, s) ==
    IF i >= Len(items) THEN Ok(NullObj, s)
    ELSE
    LET obj == items[i + 1]
    IN  IF obj.kind # "Dataframe"
        THEN Fail(CreateAstError(ast, "All returned objects must be dataframes.",
                                 func.func_name), s)
        ELSE SinkLoop(ast, func, items, i + 1,
                      CreateNode(s, MemorySinkIR(ast, obj.node, func.output_table_prefix,
                                                 TRUE, i)))

\* The loop of ProcessExecFuncs with a slip: a descriptor whose name is bound
\* to no function is passed over and the loop goes on with the next one.
ExecFuncsLoopSkipsUnbound(ast, exec_funcs, i, s) ==
    LET WithSinks(sinks) ==
            IF ~sinks.ok THEN sinks ELSE ExecFuncsLoop(ast, exec_funcs, i + 1, sinks.st)
        WithReturn(func, return_obj) ==
            IF ~return_obj.ok THEN return_obj
            ELSE IF ~IsCollection(return_obj.obj)
            THEN IF return_obj.obj.kind # "Dataframe"
                 THEN Fail(CreateAstError(ast, "Function should return a DataFrame.",
                                          func.func_name), return_obj.st)
                 ELSE ExecFuncsLoop(ast, exec_funcs, i + 1,
                          CreateNode(return_obj.st,
                              MemorySinkIR(ast, return_obj.obj.node,
                                           func.output_table_prefix, FALSE, 0)))
            ELSE WithSinks(SinkLoop(ast, func, return_obj.obj.items, 0, return_obj.st))
        WithArgs(func, objptr, argmap) ==
            IF ~argmap.ok THEN argmap
            ELSE WithReturn(func, Invoke(objptr, argmap.obj, ast, argmap.st))
        WithFunc(func, objptr) ==
            IF func.func_name = ""
            THEN Fail(CreateAstError(ast, "Must specify func_name for each FuncToExecute.",
                                     ""), s)
            ELSE IF func.output_table_prefix = ""
            THEN Fail(CreateAstError(ast,
                                     "Output_table_prefix must be specified for function",
                                     func.func_name), s)
            ELSE IF objptr.kind # "Function"
            THEN ExecFuncsLoop(ast, exec_funcs, i + 1, s)
            ELSE WithArgs(func, objptr,
                          ProcessExecFuncArgs(ast, objptr, func.arg_values, s))
    IN  IF i > Len(exec_funcs) THEN Ok(NullObj, s)
        ELSE WithFunc(exec_funcs[i],
                      Lookup(s.scopes, RootTable, exec_funcs[i].func_name))

\* The loop of ProcessExecFuncs over exec_funcs, from the i-th on.
ExecFuncsLoop(ast, exec_funcs, i, s) ==
    LET WithSinks(sinks) ==
            IF ~sinks.ok THEN sinks ELSE ExecFuncsLoop(ast, exec_funcs, i + 1, sinks.st)
        WithReturn(func, return_obj) ==
            IF ~return_obj.ok THEN return_obj
            ELSE IF ~IsCollection(return_obj.obj)
            THEN IF return_obj.obj.kind # "Dataframe"
                 THEN Fail(CreateAstError(ast, "Function should return a DataFrame.",
                                          func.func_name), return_obj.st)
                 ELSE ExecFuncsLoop(ast, exec_funcs, i + 1,
                          CreateNode(return_obj.st,
                              MemorySinkIR(ast, return_obj.obj.node,
                                           func.output_table_prefix, FALSE, 0)))
            ELSE WithSinks(SinkLoop(ast, func, return_obj.obj.items, 0, return_obj.st))
        WithArgs(func, objptr, argmap) ==
            IF ~argmap.ok THEN argmap
            ELSE WithReturn(func, Invoke(objptr, argmap.obj, ast, argmap.st))
        WithFunc(func, objptr) ==
            IF func.func_name = ""
            THEN Fail(CreateAstError(ast, "Must specify func_name for each FuncToExecute.",
                                     ""), s)
            ELSE IF func.output_table_prefix = ""
            THEN Fail(CreateAstError(ast,
                                     "Output_table_prefix must be specified for function",
                                     func.func_name), s)
            ELSE IF objptr.kind = "Null"
            THEN Fail(CreateAstError(ast, "Function to execute not found.",
                                     func.func_name), s)
            ELSE IF objptr.kind # "Function"
            THEN Fail(CreateAstError(ast, "is not a function.", func.func_name), s)
            ELSE WithArgs(func, objptr,
                          ProcessExecFuncArgs(ast, objptr, func.arg_values, s))
    IN  IF i > Len(exec_funcs) THEN Ok(NullObj, s)
        ELSE WithFunc(exec_funcs[i],
                      Lookup(s.scopes, RootTable, exec_funcs[i].func_name))

\* ProcessExecFuncs(exec_funcs): every error points at a made-up statement
\* node at line 0, column 0.
ProcessExecFuncs(exec_funcs, s) ==
    ExecFuncsLoop([type |-> "ExpressionStatement", at |-> <<0, 0>>], exec_funcs, 1, s)

\* GetMainFuncArgsSpec(): the parameters of `main` in declaration order, each
\* with its annotated data type.
GetMainFuncArgsSpec(s) ==
    LET mainfn == Lookup(s.scopes, RootTable, kMainFuncId)
    IN  IF mainfn.kind = "Null"
        THEN Fail(PlainError("Could not find fn", kMainFuncId), s)
        ELSE IF mainfn.kind # "Function"
        THEN Fail(PlainError("is not a function", kMainFuncId), s)
        ELSE Ok([i \in DOMAIN mainfn.fn.args |->
                    [name |-> mainfn.fn.args[i],
                     data_type |-> IF mainfn.fn.args[i] \in DOMAIN mainfn.fn.arg_types
                                   THEN mainfn.fn.arg_types[mainfn.fn.args[i]].dt
                                   ELSE ""]], s)

-----------------------------------------------------------------------------
(* The scripts and exec requests the evaluator is run on.  A statement of   *)
(* the script is written at line L; a function body is written on the line  *)
(* of its `def`.                                                            *)

\* v['key']
Sub(L, c, v, key) == Subscript(<<L, c>>, Name(<<L, c>>, v), Index(Str(<<L, c + 3>>, key)))

\* px.DataFrame('table')
PxDataFrame(L, c, table) ==
    Call(<<L, c>>, Attribute(<<L, c>>, Name(<<L, c>>, "px"), "DataFrame"),
         <<Str(<<L, c + 13>>, table)>>, <<>>)

\* name(arguments, keywords)
CallName(L, c, name, arguments, keywords) ==
    Call(<<L, c>>, Name(<<L, c>>, name), arguments, keywords)

\* name = value
AssignName(L, name, value) == Assign(<<L, 0>>, <<Name(<<L, 0>>, name)>>, value)

ImportStmts(L) ==
    { Import(<<L, 0>>, Alias(<<L, 7>>, "px", "")),          \* import px
      Import(<<L, 0>>, Alias(<<L, 7>>, "nomod", "")) }      \* import nomod

AliasedImportStmts(L) ==
    { Import(<<L, 0>>, Alias(<<L, 7>>, "px", "p")),         \* import px as p
      Import(<<L, 0>>, Alias(<<L, 7>>, "px", "df")),        \* import px as df
      Import(<<L, 0>>, Alias(<<L, 7>>, "nomod", "px")) }    \* import nomod as px

ImportFromStmts(L) ==
    { \* from px import DataFrame
      ImportFrom(<<L, 0>>, 0, "px", Alias(<<L, 15>>, "DataFrame", "")),
      \* from .px import DataFrame
      ImportFrom(<<L, 0>>, 1, "px", Alias(<<L, 16>>, "DataFrame", "")),
      \* from px import nothing
      ImportFrom(<<L, 0>>, 0, "px", Alias(<<L, 15>>, "nothing", "")) }

\* from module import names..., at the given level
FromImport(L, level, module, aliases) ==
    ImportFrom(<<L, 0>>, level, module, Tuple(<<L, 15>>, aliases))

ImportFromTupleStmts(L) ==
    LET D == Alias(<<L, 15>>, "DataFrame", "D")
        E == Alias(<<L, 31>>, "DataFrame", "E")
        nothing == Alias(<<L, 31>>, "nothing", "")
        vAsD == Alias(<<L, 31>>, "v", "D")
    IN  { FromImport(L, 0, "px", <<D, E>>),            \* from px import DataFrame as D, DataFrame as E
          FromImport(L, 0, "px", <<D, nothing, E>>),   \* from px import DataFrame as D, nothing, DataFrame as E
          FromImport(L, 0, "px", <<nothing, D>>),      \* from px import nothing, DataFrame as D
          FromImport(L, 0, "px", <<D, vAsD>>),         \* from px import DataFrame as D, v as D
          FromImport(L, 0, "nomod", <<D, E>>),         \* from nomod import DataFrame as D, DataFrame as E
          FromImport(L, 2, "px", <<D, E>>),            \* from ..px import DataFrame as D, DataFrame as E
          FromImport(L, 1, "nomod", <<D>>) }           \* from .nomod import DataFrame as D

\* The texts of a user module of the module map that may import `other`.
ModuleTexts(other) ==
    { Suite(<<1, 0>>, <<>>),                                             \* (empty)
      Suite(<<1, 0>>, <<AssignName(1, "x", Number(<<1, 4>>, 1))>>),  \* x = 1
      Suite(<<1, 0>>, <<Import(<<1, 0>>, Alias(<<1, 7>>, "px", ""))>>),  \* import px
      Suite(<<1, 0>>, <<Import(<<1, 0>>, Alias(<<1, 7>>, other, ""))>>), \* import other
      \* import other as o
      Suite(<<1, 0>>, <<Import(<<1, 0>>, Alias(<<1, 7>>, other, "o"))>>) }

\* The module maps, as the sequence in which SetupModules meets their entries:
\* the iteration order of an absl::flat_hash_map is not fixed.
ModuleMaps ==
    { <<[name |-> n, text |-> t]>> :
          n \in {"a", "b"}, t \in ModuleTexts("px") }
    \cup { <<[name |-> "a", text |-> ta], [name |-> "b", text |-> tb]>> :
              ta \in ModuleTexts("b"), tb \in ModuleTexts("a") }
    \cup { <<[name |-> "b", text |-> tb], [name |-> "a", text |-> ta]>> :
              ta \in ModuleTexts("b"), tb \in ModuleTexts("a") }

\* Imports of the main script when user modules exist.
ModuleImportStmts(L) ==
    { Import(<<L, 0>>, Alias(<<L, 7>>, m, as)) :
          m \in {"px", "a", "b"}, as \in {"", "m"} }
    \cup { ImportFrom(<<L, 0>>, 0, m, Alias(<<L, 15>>, "x", "")) : m \in {"a", "b"} }

AssignStmts(L) ==
    { \* df = px.DataFrame('t')
      AssignName(L, "df", PxDataFrame(L, 5, "t")),
      \* other = px.DataFrame('u')
      AssignName(L, "other", PxDataFrame(L, 8, "u")),
      \* df['b'] = df['a']
      Assign(<<L, 0>>, <<Sub(L, 0, "df", "b")>>, Sub(L, 10, "df", "a")),
      \* df.b = +df['a']
      Assign(<<L, 0>>, <<Attribute(<<L, 0>>, Name(<<L, 0>>, "df"), "b")>>,
             UnaryOp(<<L, 7>>, "+", Sub(L, 8, "df", "a"))),
      \* df['x'] = other['c']
      Assign(<<L, 0>>, <<Sub(L, 0, "df", "x")>>, Sub(L, 10, "other", "c")),
      \* df['x'] = other.c
      Assign(<<L, 0>>, <<Sub(L, 0, "df", "x")>>,
             Attribute(<<L, 10>>, Name(<<L, 10>>, "other"), "c")),
      \* df['x'] = g()
      Assign(<<L, 0>>, <<Sub(L, 0, "df", "x")>>, CallName(L, 10, "g", <<>>, <<>>)),
      \* x = +1
      AssignName(L, "x", UnaryOp(<<L, 4>>, "+", Number(<<L, 5>>, 1))),
      \* x = -(+1)
      AssignName(L, "x", UnaryOp(<<L, 4>>, "-",
                                 UnaryOp(<<L, 6>>, "+", Number(<<L, 7>>, 1)))),
      \* y = f(1)
      AssignName(L, "y", CallName(L, 4, "f", <<Number(<<L, 6>>, 1)>>, <<>>)),
      \* y = f('s')
      AssignName(L, "y", CallName(L, 4, "f", <<Str(<<L, 6>>, "s")>>, <<>>)),
      \* y = f()
      AssignName(L, "y", CallName(L, 4, "f", <<>>, <<>>)),
      \* y = f(1, 2)
      AssignName(L, "y", CallName(L, 4, "f",
                                  <<Number(<<L, 6>>, 1), Number(<<L, 9>>, 2)>>, <<>>)),
      \* y = f(z=1)
      AssignName(L, "y", CallName(L, 4, "f", <<>>,
                                  <<Keyword(<<L, 6>>, "z", Number(<<L, 8>>, 1))>>)) }

\* Assignments that misuse their target.
MisusedTargetStmts(L) ==
    { \* an assignment without a target
      Assign(<<L, 0>>, <<>>, Number(<<L, 4>>, 1)),
      \* a = b = 1
      Assign(<<L, 0>>, <<Name(<<L, 0>>, "a"), Name(<<L, 4>>, "b")>>, Number(<<L, 8>>, 1)),
      \* (a, b) = 1
      Assign(<<L, 0>>, <<Tuple(<<L, 0>>, <<Name(<<L, 1>>, "a"), Name(<<L, 4>>, "b")>>)>>,
             Number(<<L, 9>>, 1)),
      \* x['a'] = 1
      Assign(<<L, 0>>, <<Sub(L, 0, "x", "a")>>, Number(<<L, 9>>, 1)),
      \* px['a'] = 1
      Assign(<<L, 0>>, <<Sub(L, 0, "px", "a")>>, Number(<<L, 10>>, 1)),
      \* px.DataFrame('t')['x'] = 1
      Assign(<<L, 0>>,
             <<Subscript(<<L, 0>>, PxDataFrame(L, 0, "t"), Index(Str(<<L, 18>>, "x")))>>,
             Number(<<L, 25>>, 1)),
      \* px.DataFrame('t').x = 1
      Assign(<<L, 0>>, <<Attribute(<<L, 0>>, PxDataFrame(L, 0, "t"), "x")>>,
             Number(<<L, 22>>, 1)) }

\* px.v = value
AssignPxV(L, value) ==
    Assign(<<L, 0>>, <<Attribute(<<L, 0>>, Name(<<L, 0>>, "px"), "v")>>, value)

\* Assignments to an attribute of the module px, one for each kind of
\* expression on the right-hand side.
AttributeAssignStmts(L) ==
    { AssignPxV(L, Number(<<L, 7>>, 1)),                            \* px.v = 1
      AssignPxV(L, Str(<<L, 7>>, "s")),                             \* px.v = 's'
      AssignPxV(L, Name(<<L, 7>>, "df")),                           \* px.v = df
      AssignPxV(L, Attribute(<<L, 7>>, Name(<<L, 7>>, "px"), "DataFrame")),
                                                                    \* px.v = px.DataFrame
      AssignPxV(L, Sub(L, 7, "df", "a")),                           \* px.v = df['a']
      AssignPxV(L, PxDataFrame(L, 7, "t")),                         \* px.v = px.DataFrame('t')
      AssignPxV(L, List(<<L, 7>>, <<Number(<<L, 8>>, 1)>>)),        \* px.v = [1]
      AssignPxV(L, Tuple(<<L, 7>>, <<Number(<<L, 8>>, 1)>>)),       \* px.v = (1,)
      AssignPxV(L, BinOp(<<L, 7>>, "+", Number(<<L, 7>>, 1), Number(<<L, 11>>, 2))),
                                                                    \* px.v = 1 + 2
      AssignPxV(L, UnaryOp(<<L, 7>>, "-", Number(<<L, 8>>, 1))),    \* px.v = -1
      AssignPxV(L, Compare(<<L, 7>>, Number(<<L, 7>>, 1), <<"<">>, <<Number(<<L, 11>>, 2)>>)),
                                                                    \* px.v = 1 < 2
      AssignPxV(L, BoolOp(<<L, 7>>, "and", <<Number(<<L, 7>>, 1), Number(<<L, 13>>, 2)>>)) }
                                                                    \* px.v = 1 and 2

FunctionDefStmts(L) ==
    { \* def f(x: int): x = -x; return x
      FunctionDef(<<L, 0>>, "f", <<Arg(<<L, 6>>, "x", Name(<<L, 9>>, "int"))>>,
          Suite(<<L, 15>>,
                <<AssignName(L, "x", UnaryOp(<<L, 19>>, "-", Name(<<L, 20>>, "x"))),
                  Return(<<L, 23>>, Name(<<L, 30>>, "x"))>>)),
      \* def g(): o = px.DataFrame('u'); return o['c']
      FunctionDef(<<L, 0>>, "g", <<>>,
          Suite(<<L, 9>>,
                <<AssignName(L, "o", PxDataFrame(L, 13, "u")),
                  Return(<<L, 32>>, Sub(L, 39, "o", "c"))>>)),
      \* def h(): df['y'] = df['a']; import px as x; return df
      FunctionDef(<<L, 0>>, "h", <<>>,
          Suite(<<L, 9>>,
                <<Assign(<<L, 9>>, <<Sub(L, 9, "df", "y")>>, Sub(L, 19, "df", "a")),
                  Import(<<L, 28>>, Alias(<<L, 35>>, "px", "x")),
                  Return(<<L, 44>>, Name(<<L, 51>>, "df"))>>)),
      \* def q(): a = 1; 'late'; c = 2
      FunctionDef(<<L, 0>>, "q", <<>>,
          Suite(<<L, 9>>,
                <<AssignName(L, "a", Number(<<L, 13>>, 1)),
                  DocString(<<L, 16>>, "late"),
                  AssignName(L, "c", Number(<<L, 28>>, 2))>>)),
      \* def r(): return; x = 1
      FunctionDef(<<L, 0>>, "r", <<>>,
          Suite(<<L, 9>>,
                <<Return(<<L, 9>>, NoAst),
                  AssignName(L, "x", Number(<<L, 21>>, 1))>>)),
      \* def p(): 'doc'; a = 1; b = a
      FunctionDef(<<L, 0>>, "p", <<>>,
          Suite(<<L, 9>>,
                <<DocString(<<L, 9>>, "doc"),
                  AssignName(L, "a", Number(<<L, 20>>, 1)),
                  AssignName(L, "b", Name(<<L, 27>>, "a"))>>)),
      \* def main(x: int): return df
      FunctionDef(<<L, 0>>, "main", <<Arg(<<L, 9>>, "x", Name(<<L, 12>>, "int"))>>,
          Suite(<<L, 18>>, <<Return(<<L, 18>>, Name(<<L, 25>>, "df"))>>)) }

\* def name(a): return 1, with the given default of a, *args and **kwargs
\* (NoAst where the definition has none).
ParamFunctionDef(L, name, default, args, kwargs) ==
    [FunctionDef(<<L, 0>>, name, <<Arg(<<L, 6>>, "a", NoAst)>>,
                 Suite(<<L, 30>>, <<Return(<<L, 30>>, Number(<<L, 37>>, 1))>>))
        EXCEPT !.args.defaults = <<default>>, !.args.args = args, !.args.kwargs = kwargs]

\* Function definitions with a parameter form the evaluator does not support.
UnsupportedParamStmts(L) ==
    LET one == Number(<<L, 8>>, 1)
        args == Name(<<L, 12>>, "args")
        kwargs == Name(<<L, 20>>, "kwargs")
    IN  { ParamFunctionDef(L, "f", one, NoAst, NoAst),        \* def f(a=1): return 1
          ParamFunctionDef(L, "f", NoAst, args, NoAst),       \* def f(a, *args): return 1
          ParamFunctionDef(L, "f", NoAst, NoAst, kwargs),     \* def f(a, **kwargs): return 1
          ParamFunctionDef(L, "df", one, args, kwargs),       \* def df(a=1, *args, **kwargs): return 1
          ParamFunctionDef(L, "px", NoAst, args, kwargs),     \* def px(a, *args, **kwargs): return 1
          ParamFunctionDef(L, "fresh", NoAst, NoAst, kwargs) }  \* def fresh(a, **kwargs): return 1

\* def name(fn): return value
DecoratorDef(L, name, value) ==
    FunctionDef(<<L, 0>>, name, <<Arg(<<L, 6>>, "fn", NoAst)>>,
                Suite(<<L, 11>>, <<Return(<<L, 11>>, value)>>))

\* Functions of one parameter, to decorate with.
DecoratorDefStmts(L) ==
    { DecoratorDef(L, "same", Name(<<L, 18>>, "fn")),        \* def same(fn): return fn
      DecoratorDef(L, "other", Name(<<L, 18>>, "other")),    \* def other(fn): return other
      DecoratorDef(L, "bad", Number(<<L, 18>>, 1)) }         \* def bad(fn): return 1

\* @decorator
\* def name(x: int): 'doc'; return x
Decorated(L, decorator, name) ==
    [FunctionDef(<<L + 1, 0>>, name, <<Arg(<<L + 1, 6>>, "x", Name(<<L + 1, 9>>, "int"))>>,
                 Suite(<<L + 1, 15>>,
                       <<DocString(<<L + 1, 15>>, "doc"),
                         Return(<<L + 1, 22>>, Name(<<L + 1, 29>>, "x"))>>))
        EXCEPT !.decorators = <<decorator>>]

DecoratedDefStmts(L) ==
    { Decorated(L, Name(<<L, 1>>, "same"), "k"),
      Decorated(L, Name(<<L, 1>>, "other"), "k"),
      Decorated(L, Name(<<L, 1>>, "bad"), "k"),
      Decorated(L, Name(<<L, 1>>, "bad"), "f"),
      Decorated(L, Name(<<L, 1>>, "df"), "k"),
      Decorated(L, Attribute(<<L, 1>>, Name(<<L, 1>>, "px"), "DataFrame"), "k") }

\* Calls of something that is an Expr, with arguments that would make nodes.
ExprCallStmts(L) ==
    LET two == Number(<<L, 20>>, 2)
        kw == Keyword(<<L, 24>>, "k", Str(<<L, 26>>, "s"))
        dfa == Attribute(<<L, 0>>, Name(<<L, 0>>, "df"), "a")
    IN  { \* df.a(2, k='s')
          ExpressionStatement(<<L, 0>>, Call(<<L, 0>>, dfa, <<two>>, <<kw>>)),
          \* df['a'](2)
          ExpressionStatement(<<L, 0>>, Call(<<L, 0>>, Sub(L, 0, "df", "a"), <<two>>, <<>>)),
          \* 1(k='s')
          ExpressionStatement(<<L, 0>>, Call(<<L, 0>>, Number(<<L, 0>>, 1), <<>>, <<kw>>)),
          \* (1 + 2)(2, k='s')
          ExpressionStatement(<<L, 0>>,
              Call(<<L, 0>>, BinOp(<<L, 1>>, "+", Number(<<L, 1>>, 1), Number(<<L, 5>>, 2)),
                   <<two>>, <<kw>>)) }

\* Comparisons and boolean operations with one operator.
CompareStmts(L) ==
    LET one == Number(<<L, 0>>, 1)
        two == Number(<<L, 4>>, 2)
        dfa == Sub(L, 0, "df", "a")
    IN  { \* 1 < 2
          ExpressionStatement(<<L, 0>>, Compare(<<L, 0>>, one, <<"<">>, <<two>>)),
          \* df['a'] == 'x'
          ExpressionStatement(<<L, 0>>,
              Compare(<<L, 0>>, dfa, <<"==">>, <<Str(<<L, 11>>, "x")>>)),
          \* 1 in 2
          ExpressionStatement(<<L, 0>>, Compare(<<L, 0>>, one, <<"in">>, <<two>>)),
          \* 1 < px
          ExpressionStatement(<<L, 0>>,
              Compare(<<L, 0>>, one, <<"<">>, <<Name(<<L, 4>>, "px")>>)),
          \* 1 and 2
          ExpressionStatement(<<L, 0>>, BoolOp(<<L, 0>>, "and", <<one, two>>)),
          \* 1 or 2 or 1
          ExpressionStatement(<<L, 0>>, BoolOp(<<L, 0>>, "or", <<one, two, one>>)) }

\* Chained comparisons.
ChainedCompareStmts(L) ==
    LET one == Number(<<L, 0>>, 1)
        two == Number(<<L, 4>>, 2)
        three == Number(<<L, 8>>, 3)
    IN  { \* 1 < 2 < 3
          ExpressionStatement(<<L, 0>>,
              Compare(<<L, 0>>, one, <<"<", "<">>, <<two, three>>)),
          \* c = 1 < 2 == 3 < 1
          AssignName(L, "c",
              Compare(<<L, 4>>, one, <<"<", "==", "<">>, <<two, three, one>>)) }

\* def name(): return value
ReturningDef(L, name, value) ==
    FunctionDef(<<L, 0>>, name, <<>>, Suite(<<L, 9>>, <<Return(<<L, 9>>, value)>>))

\* Functions without parameters for the exec entry, by what they return.
ReturningDefStmts(L) ==
    LET t == PxDataFrame(L, 20, "t")
        u == PxDataFrame(L, 40, "u")
    IN  { ReturningDef(L, "two", List(<<L, 16>>, <<t, u>>)),      \* def two(): return [px.DataFrame('t'), px.DataFrame('u')]
          ReturningDef(L, "tup", Tuple(<<L, 16>>, <<t>>)),        \* def tup(): return (px.DataFrame('t'),)
          ReturningDef(L, "mixed", List(<<L, 16>>, <<t, Number(<<L, 40>>, 1)>>)),
                                                                  \* def mixed(): return [px.DataFrame('t'), 1]
          ReturningDef(L, "empty", List(<<L, 16>>, <<>>)),        \* def empty(): return []
          ReturningDef(L, "none", NoAst) }                        \* def none(): return

ExprStmts(L) ==
    { \* h()
      ExpressionStatement(<<L, 0>>, CallName(L, 0, "h", <<>>, <<>>)),
      \* g()
      ExpressionStatement(<<L, 0>>, CallName(L, 0, "g", <<>>, <<>>)),
      \* q()
      ExpressionStatement(<<L, 0>>, CallName(L, 0, "q", <<>>, <<>>)),
      \* r()
      ExpressionStatement(<<L, 0>>, CallName(L, 0, "r", <<>>, <<>>)),
      \* p()
      ExpressionStatement(<<L, 0>>, CallName(L, 0, "p", <<>>, <<>>)) }

\* Statements the switch of ProcessASTSuite rejects at the top level: a
\* return, a statement of a kind without a handler and, after the first
\* statement, a doc string.
RejectedStmts(L) ==
    { Return(<<L, 0>>, NoAst), Pass(<<L, 0>>) }
        \cup (IF L > 1 THEN {DocString(<<L, 0>>, "late")} ELSE {})

ExecArg(name, value) == [name |-> name, value |-> value]

FuncToExecute(func_name, output_table_prefix, arg_values) ==
    [func_name |-> func_name, output_table_prefix |-> output_table_prefix,
     arg_values |-> arg_values]

ExecRequests ==
    { <<FuncToExecute("main", "out", <<ExecArg("x", "1")>>)>>,
      <<FuncToExecute("main", "out", <<ExecArg("x", "1"), ExecArg("zz", "1")>>)>>,
      <<FuncToExecute("main", "out", <<>>)>>,
      <<FuncToExecute("main", "out", <<ExecArg("x", "abc")>>)>>,
      <<FuncToExecute("f", "out", <<ExecArg("x", "1")>>)>> }

\* The parses of the texts handed to ParseAndProcessSingleExpression.
SingleExpressionTexts ==
    LET E(expr) == ExpressionStatement(<<1, 0>>, expr)
        M(items) == Parsed(Module(<<1, 0>>, items))
        one == Number(<<1, 0>>, 1)
    IN  { NotParsed,                                              \* 1 +
          M(<<>>),                                                \* (empty)
          M(<<E(one)>>),                                          \* 1
          M(<<E(Name(<<1, 0>>, "px"))>>),                         \* px
          M(<<E(PxDataFrame(1, 0, "t"))>>),                       \* px.DataFrame('t')
          M(<<E(Attribute(<<1, 0>>, Name(<<1, 0>>, "px"), "nothing"))>>),  \* px.nothing
          M(<<E(Name(<<1, 0>>, "df"))>>),                         \* df
          M(<<E(Sub(1, 0, "df", "a"))>>),                         \* df['a']
          M(<<E(Name(<<1, 0>>, "nothing"))>>),                    \* nothing
          M(<<E(one), ExpressionStatement(<<2, 0>>, Number(<<2, 0>>, 2))>>),   \* 1 ; 2
          M(<<AssignName(1, "x", Number(<<1, 4>>, 1))>>),         \* x = 1
          M(<<AssignName(1, "px", Number(<<1, 5>>, 1))>>),        \* px = 1
          M(<<Import(<<1, 0>>, Alias(<<1, 7>>, "px", ""))>>),     \* import px
          M(<<Pass(<<1, 0>>)>>) }                                 \* pass

\* def chk(a, b: int): return px.DataFrame('t')
CheckedDefStmts(L) ==
    { FunctionDef(<<L, 0>>, "chk",
          <<Arg(<<L, 8>>, "a", NoAst), Arg(<<L, 11>>, "b", Name(<<L, 14>>, "int"))>>,
          Suite(<<L, 20>>, <<Return(<<L, 20>>, PxDataFrame(L, 27, "t"))>>)) }

\* Descriptors that fail one of the checks of the exec entry, or pass them
\* all and fail in the call (the last one).
FailingDescriptors ==
    { FuncToExecute("", "out", <<>>),
      FuncToExecute("two", "", <<>>),
      FuncToExecute("", "", <<>>),
      FuncToExecute("nofn", "out", <<>>),
      FuncToExecute("px", "out", <<>>),
      FuncToExecute("two", "out", <<ExecArg("zz", "1")>>),
      FuncToExecute("chk", "out", <<ExecArg("zz", "1")>>),
      FuncToExecute("chk", "out", <<ExecArg("a", "1")>>),
      FuncToExecute("chk", "out", <<ExecArg("b", "abc")>>),
      FuncToExecute("chk", "out", <<ExecArg("b", "1"), ExecArg("a", "1")>>),
      FuncToExecute("chk", "out", <<ExecArg("b", "abc"), ExecArg("zz", "1")>>),
      FuncToExecute("chk", "out", <<ExecArg("b", "1")>>) }

\* Requests of two descriptors, one of them `two` and the other a failing
\* one, in either order.
CheckedRequests ==
    { <<FuncToExecute("two", "first", <<>>), d>> : d \in FailingDescriptors }
    \cup { <<d, FuncToExecute("two", "first", <<>>)>> : d \in FailingDescriptors }

\* Requests for the functions of ReturningDefStmts, alone and after `main`.
ReturningRequests ==
    { <<FuncToExecute(f, "out", <<>>)>> : f \in {"two", "tup", "mixed", "empty", "none"} }
    \cup { <<FuncToExecute("two", "first", <<>>), FuncToExecute(f, "out", <<>>)>> :
              f \in {"tup", "mixed", "none"} }

-----------------------------------------------------------------------------
(* The state machine.                                                       *)

\* The records of calls and of map-assignments describe the last operation.
Fresh(s) ==
    [s EXCEPT !.calls = <<>>, !.massigns = <<>>, !.coerced = <<>>, !.unops = <<>>,
              !.events = <<>>, !.suites = <<>>]

StatusOf(r) == IF r.ok THEN "ok" ELSE IF r.err.msg = "crash" THEN "crashed" ELSE "error"

\* The evaluator is created for an empty module map.
Created(c) ==
    /\ st = c.st
    /\ status = StatusOf(c)
    /\ err = c.err
    /\ pc = 0
    /\ phase = "created"
    /\ last = [op |-> "Create", input |-> <<>>]

Init == Created(Create(<<>>))

\* The outcome r of operation op on `input` becomes the new state.
Outcome(op, input, r) ==
    /\ st' = r.st
    /\ status' = StatusOf(r)
    /\ err' = r.err
    /\ last' = [op |-> op, input |-> input]

\* ProcessModuleNode starts the module suite: it is empty, starts with a doc
\* string or starts with another statement.
BeginSuite ==
    /\ status = "ok" /\ phase = "created"
    /\ \E first \in {"Empty", "DocString", "Statement"} :
        LET body == Suite(<<1, 0>>,
                          CASE first = "Empty" -> <<>>
                            [] first = "DocString" -> <<DocString(<<1, 0>>, "doc")>>
                            [] OTHER -> <<[type |-> "Statement", at |-> <<1, 0>>]>>)
            r == IF first = "Empty"
                 THEN VisitSuite(body, FALSE, RootTable, Fresh(st))
                 ELSE SuiteHead(body, FALSE, RootTable, Fresh(st))
        IN  /\ Outcome("BeginSuite", body, [r EXCEPT !.obj = NullObj])
            /\ pc' = IF first = "DocString" THEN 1 ELSE 0
            /\ phase' = "eval"

\* One statement of the module suite, of the kinds the sets above list.
RunStmt(op, stmts) ==
    /\ status = "ok" /\ phase = "eval" /\ pc < MaxStmts
    /\ \E stmt \in stmts :
        Outcome(op, stmt, VisitStmt(stmt, FALSE, RootTable, Fresh(st)))
    /\ pc' = pc + 1
    /\ phase' = phase

\* One statement of the second family of scripts.
ProbeStmt(op, stmts) == pc < MaxProbe /\ RunStmt(op, stmts)

\* One statement of the third family of scripts.
EarlyStmt(op, stmts) == pc < MaxEarly /\ RunStmt(op, stmts)

ImportStep == RunStmt("ProcessImport", ImportStmts(pc + 1))

ImportFromStep == RunStmt("ProcessImportFrom", ImportFromStmts(pc + 1))

ExprStmtStep == RunStmt("ProcessExprStmtNode", ExprStmts(pc + 1))

AssignStep == RunStmt("ProcessAssignNode", AssignStmts(pc + 1))

FunctionDefStep == RunStmt("ProcessFunctionDefNode", FunctionDefStmts(pc + 1))

RejectedStep == RunStmt("Rejected", RejectedStmts(pc + 1))

MisusedTargetStep == ProbeStmt("ProcessAssignNode", MisusedTargetStmts(pc + 1))

AliasedImportStep == ProbeStmt("ProcessImport", AliasedImportStmts(pc + 1))

ImportFromTupleStep == ProbeStmt("ProcessImportFrom", ImportFromTupleStmts(pc + 1))

UnsupportedParamStep ==
    ProbeStmt("ProcessFunctionDefNode", UnsupportedParamStmts(pc + 1))

DecoratorDefStep == EarlyStmt("ProcessFunctionDefNode", DecoratorDefStmts(pc + 1))

DecoratedDefStep == ProbeStmt("ProcessFunctionDefNode", DecoratedDefStmts(pc + 1))

ExprCallStep == ProbeStmt("ProcessExprStmtNode", ExprCallStmts(pc + 1))

CompareStep == EarlyStmt("ProcessExprStmtNode", CompareStmts(pc + 1))

\* A statement whose outcome depends on the build is run by a build with
\* DCHECKs and by one without.
ChainedCompareStep ==
    /\ status = "ok" /\ phase = "eval" /\ pc < MaxProbe
    /\ \E stmt \in ChainedCompareStmts(pc + 1), dchecks \in BOOLEAN :
        Outcome("ProcessDataCompare", stmt,
                VisitStmt(stmt, FALSE, RootTable, [Fresh(st) EXCEPT !.dchecks = dchecks]))
    /\ pc' = pc + 1
    /\ phase' = phase

ReturningDefStep == EarlyStmt("ProcessFunctionDefNode", ReturningDefStmts(pc + 1))

AttributeAssignStep == EarlyStmt("ProcessAssignNode", AttributeAssignStmts(pc + 1))

\* ParseAndProcessSingleExpression on the visitor of the script, between two
\* statements.
SingleExpressionStep ==
    /\ status = "ok" /\ phase = "eval" /\ pc < MaxProbe
    /\ \E ast \in SingleExpressionTexts, import_px \in BOOLEAN :
        Outcome("ParseAndProcessSingleExpression", [ast |-> ast, import_px |-> import_px],
                [ParseAndProcessSingleExpression(ast, import_px, RootTable, Fresh(st))
                    EXCEPT !.obj = NullObj])
    /\ pc' = pc
    /\ phase' = "expr"

\* The statement list is exhausted: ProcessASTSuite returns None.
EndSuite ==
    /\ status = "ok" /\ phase = "eval" /\ pc >= 1
    /\ phase' = "done"
    /\ last' = [op |-> "EndSuite", input |-> <<>>]
    /\ st' = Fresh(st)
    /\ UNCHANGED <<status, err, pc>>

ExecStep ==
    /\ status = "ok" /\ phase = "done"
    /\ \E exec_funcs \in ExecRequests :
        Outcome("ProcessExecFuncs", exec_funcs,
                [ProcessExecFuncs(exec_funcs, Fresh(st)) EXCEPT !.obj = NullObj])
    /\ phase' = "exec"
    /\ pc' = pc

\* The functions a request names are functions of the script.
NamesFunctions(exec_funcs, s) ==
    \A i \in DOMAIN exec_funcs :
        Lookup(s.scopes, RootTable, exec_funcs[i].func_name).kind = "Function"

ReturningExecStep ==
    /\ status = "ok" /\ phase = "done"
    /\ \E exec_funcs \in ReturningRequests :
        /\ NamesFunctions(exec_funcs, st)
        /\ Outcome("ProcessExecFuncs", exec_funcs,
                   [ProcessExecFuncs(exec_funcs, Fresh(st)) EXCEPT !.obj = NullObj])
    /\ phase' = "exec"
    /\ pc' = pc

\* The definition of chk in a script that has defined `two`.
CheckedDefStep ==
    /\ Lookup(st.scopes, RootTable, "two").kind = "Function"
    /\ ProbeStmt("ProcessFunctionDefNode", CheckedDefStmts(pc + 1))

\* The exec entry for a request of two descriptors, when `two` and chk are
\* functions of the script.
CheckedExecStep ==
    /\ status = "ok" /\ phase = "done"
    /\ Lookup(st.scopes, RootTable, "two").kind = "Function"
    /\ Lookup(st.scopes, RootTable, "chk").kind = "Function"
    /\ \E exec_funcs \in CheckedRequests :
        Outcome("ProcessExecFuncs", exec_funcs,
                [ProcessExecFuncs(exec_funcs, Fresh(st)) EXCEPT !.obj = NullObj])
    /\ phase' = "exec"
    /\ pc' = pc

MainArgsSpecStep ==
    /\ status = "ok" /\ phase = "done"
    /\ Outcome("GetMainFuncArgsSpec", <<>>,
               [GetMainFuncArgsSpec(Fresh(st)) EXCEPT !.obj = NullObj])
    /\ phase' = "spec"
    /\ pc' = pc

Next ==
    \/ BeginSuite
    \/ ImportStep
    \/ ImportFromStep
    \/ ExprStmtStep
    \/ AssignStep
    \/ FunctionDefStep
    \/ RejectedStep
    \/ MisusedTargetStep
    \/ AttributeAssignStep
    \/ SingleExpressionStep
    \/ CheckedDefStep
    \/ CheckedExecStep
    \/ AliasedImportStep
    \/ ImportFromTupleStep
    \/ UnsupportedParamStep
    \/ DecoratorDefStep
    \/ DecoratedDefStep
    \/ ExprCallStep
    \/ CompareStep
    \/ ChainedCompareStep
    \/ ReturningDefStep
    \/ ReturningExecStep
    \/ EndSuite
    \/ ExecStep
    \/ MainArgsSpecStep

Spec == Init /\ [][Next]_vars

\* Argument strings and annotated data types for ParseStringAsType; the last
\* type is one without a concrete data type.
ArgStrings == {"1", "0", "42", "2.5", "true", "abc", ""}

DataTypes ==
    {"BOOLEAN", "STRING", "INT64", "FLOAT64", "TIME64NS", "DURATION64NS", "UINT128",
     "DATA_TYPE_UNKNOWN"}

\* ParseStringAsType(ast, value, type) for an argument of the exec entry.
CoerceStep ==
    /\ status = "ok" /\ pc < MaxCoerce
    /\ \E value \in ArgStrings, dt \in DataTypes :
        Outcome("ParseStringAsType", [value |-> value, dt |-> dt],
                [ParseStringAsType([type |-> "ExpressionStatement", at |-> <<0, 0>>],
                                   value, TypeObject("", dt), Fresh(st))
                    EXCEPT !.obj = NullObj])
    /\ pc' = pc + 1
    /\ phase' = "coerce"

\* The operator symbols a lookup is made for: those of the two tables and one
\* of neither.
OpSymbols == DOMAIN unary_op_map \cup DOMAIN op_map \cup {"@"}

\* How a build resolves the comparison of the end of one container with the
\* end of another: the two compare equal, or they do not (or the comparison is
\* checked and fails).
Builds == {"ends_equal", "ends_differ"}

\* The evaluator as one of the builds creates it.
BuildInit ==
    \E ub \in Builds :
        /\ st = [Create(<<>>).st EXCEPT !.ub = ub]
        /\ status = StatusOf(Create(<<>>))
        /\ err = Create(<<>>).err
        /\ pc = 0
        /\ phase = "created"
        /\ last = [op |-> "Create", input |-> <<>>]

\* The expression statement `<op> 1`, whose operator is looked up by
\* GetUnaryOp.
UnaryLookupStep ==
    /\ status = "ok" /\ pc < MaxLookups
    /\ \E python_op \in OpSymbols :
        Outcome("GetUnaryOp", python_op,
                VisitStmt(ExpressionStatement(<<pc + 1, 0>>,
                              UnaryOp(<<pc + 1, 0>>, python_op,
                                      Number(<<pc + 1, Len(python_op)>>, 1))),
                          FALSE, RootTable, Fresh(st)))
    /\ pc' = pc + 1
    /\ phase' = "eval"

LookupSpec == BuildInit /\ [][UnaryLookupStep]_vars

\* The evaluator is created for a module map.
ModuleInit ==
    \E module_map \in ModuleMaps :
        /\ st = Create(module_map).st
        /\ status = StatusOf(Create(module_map))
        /\ err = Create(module_map).err
        /\ pc = 0
        /\ phase = "created"
        /\ last = [op |-> "Create", input |-> module_map]

\* One import statement of the main script.
ModuleImportStep ==
    /\ status = "ok" /\ pc < MaxImports
    /\ \E stmt \in ModuleImportStmts(pc + 1) :
        Outcome(IF stmt.type = "Import" THEN "ProcessImport" ELSE "ProcessImportFrom",
                stmt, VisitStmt(stmt, FALSE, RootTable, Fresh(st)))
    /\ pc' = pc + 1
    /\ phase' = "eval"

ModuleSpec == ModuleInit /\ [][ModuleImportStep]_vars

\* The evaluator coerces argument strings, one after the other.
CoerceSpec == Init /\ [][CoerceStep]_vars

-----------------------------------------------------------------------------
(* Properties.                                                              *)

\* The objects bound in the live tables and held by the module handler.
BoundObjects ==
    UNION {Range(st.scopes[i].table) : i \in DOMAIN st.scopes}
        \cup Range(st.module_handler)

RECURSIVE NodesOf(_)
\* The arena nodes an object refers to, itself or through its items and
\* attributes.
NodesOf(obj) ==
    (IF HasNode(obj) \/ (obj.kind = "Function" /\ obj.node # 0) THEN {obj.node} ELSE {})
        \cup UNION {NodesOf(obj.items[i]) : i \in DOMAIN obj.items}
        \cup UNION {NodesOf(obj.attrs[n]) : n \in DOMAIN obj.attrs}

\* C1: after a script that has succeeded so far, no column node made for the
\* left-hand side of a map-assignment is left in the arena, and the nodes
\* deleted are exactly those columns.
NoLhsColumnLeft ==
    status = "ok" =>
        /\ st.lhs_cols \cap DOMAIN st.nodes = {}
        /\ st.deleted = st.lhs_cols

\* Two map-assignments have succeeded.
NoLhsColumnLeftWitness ==
    /\ status = "ok"
    /\ Cardinality(st.lhs_cols) >= 2

\* C2: a successful map-assignment to the bare name df leaves every table as
\* it was, except that the visitor's own table binds df to a new Dataframe: a
\* Map, made by the assignment, over the operator of the Dataframe df was
\* bound to.
MapAssignRebindsOnlyTarget ==
    \A i \in DOMAIN st.massigns :
        LET m == st.massigns[i]
        IN  m.ok =>
            /\ DOMAIN m.scopes_after = DOMAIN m.scopes_before
            /\ \A sid \in DOMAIN m.scopes_before :
                /\ m.scopes_after[sid].parent = m.scopes_before[sid].parent
                /\ DOMAIN m.scopes_after[sid].table =
                       DOMAIN m.scopes_before[sid].table
                           \cup (IF sid = m.cur THEN {m.target.id} ELSE {})
                /\ \A n \in DOMAIN m.scopes_before[sid].table :
                       (sid # m.cur \/ n # m.target.id) =>
                           m.scopes_after[sid].table[n] = m.scopes_before[sid].table[n]
            /\ LET new == m.scopes_after[m.cur].table[m.target.id]
               IN  /\ new.kind = "Dataframe"
                   /\ new # m.parent_df
                   /\ new.node >= m.next_before
                   /\ st.nodes[new.node].type = "Map"
                   /\ st.nodes[new.node].parents = <<m.parent_df.node>>

\* A map-assignment in a function body has succeeded, its target a name that
\* the defining table binds too.
MapAssignRebindsOnlyTargetWitness ==
    \E i \in DOMAIN st.massigns :
        /\ st.massigns[i].ok
        /\ st.massigns[i].cur # RootTable
        /\ st.massigns[i].target.id \in DOMAIN st.massigns[i].scopes_before[RootTable].table

\* The map-assignments of the scripts whose right-hand side reaches a column
\* of a Dataframe that is not the target: other['c'], other.c and g(), where
\* g returns o['c'] for its own Dataframe o.
ForeignColumnStmts(L) ==
    { Assign(<<L, 0>>, <<Sub(L, 0, "df", "x")>>, Sub(L, 10, "other", "c")),
      Assign(<<L, 0>>, <<Sub(L, 0, "df", "x")>>,
             Attribute(<<L, 10>>, Name(<<L, 10>>, "other"), "c")),
      Assign(<<L, 0>>, <<Sub(L, 0, "df", "x")>>, CallName(L, 10, "g", <<>>, <<>>)) }

\* C3: a map-assignment to df whose right-hand side reaches a column of
\* another Dataframe fails with 'name is not available in this context'.
ForeignColumnRejected ==
    ( /\ last.op = "ProcessAssignNode"
      /\ last.input \in ForeignColumnStmts(pc)
      /\ Lookup(st.scopes, RootTable, "df").kind = "Dataframe"
      /\ \/ Lookup(st.scopes, RootTable, "other").kind = "Dataframe"
         \/ last.input.value.type = "Call" /\ Lookup(st.scopes, RootTable, "g").kind = "Function" )
    => /\ status = "error"
       /\ err.msg = "name is not available in this context"

\* C4: a call of a user-defined function runs on a new table, the child of
\* the defining table, which holds the parameters; when the body has ended
\* every table that was there before the call is as it was.
CallLeavesDefiningScopes ==
    \A i \in DOMAIN st.calls :
        LET c == st.calls[i]
        IN  /\ c.child = Len(c.scopes_before) + 1
            /\ c.child_parent = c.this
            /\ c.scopes_at_end = c.scopes_before
            /\ c.ok => c.params \subseteq c.child_names

\* A call has succeeded whose body bound a name the defining table binds.
CallLeavesDefiningScopesWitness ==
    \E i \in DOMAIN st.calls :
        /\ st.calls[i].ok
        /\ (st.calls[i].child_names \ st.calls[i].params)
               \cap DOMAIN st.calls[i].scopes_before[st.calls[i].this].table # {}

\* C5: every node a bound object refers to is live in the arena.
BoundNodesLive ==
    \A obj \in BoundObjects : NodesOf(obj) \subseteq DOMAIN st.nodes

\* A map-assignment has deleted a node while a name is bound to an Expr and
\* another to a Dataframe.
BoundNodesLiveWitness ==
    /\ st.deleted # {}
    /\ \E o \in BoundObjects : o.kind = "Dataframe"
    /\ \E o \in BoundObjects : o.kind = "Expr" /\ st.nodes[o.node].type \in {"Int", "Func"}

\* C6: a unary + leaves the arena as the evaluation of its operand left it and
\* gives the operand's node; another unary operator adds one node, a function
\* application with the operand's node as its one operand, and gives that node.
UnaryPlusMakesNoNode ==
    \A i \in DOMAIN st.unops :
        LET u == st.unops[i]
        IN  IF u.op = "non_op"
            THEN /\ u.result = u.operand
                 /\ u.nodes_after = u.nodes_before
                 /\ u.next_after = u.next_before
            ELSE /\ u.result \notin u.nodes_before
                 /\ u.nodes_after = u.nodes_before \cup {u.result}
                 /\ u.next_after = u.next_before + 1
                 /\ u.node.type = "Func"
                 /\ u.node.s = u.op
                 /\ u.node.args = <<u.operand>>

\* x = -(+1) has been evaluated: a unary + and, on its result, a unary -.
UnaryPlusMakesNoNodeWitness ==
    /\ status = "ok"
    /\ Len(st.unops) = 2
    /\ st.unops[1].op = "non_op"
    /\ st.unops[2].op = "negate"
    /\ st.unops[2].operand = st.unops[1].result

\* C7: right after creation, before any statement, the root table binds True
\* and False to Exprs over the Bool literals true and false, None to the None
\* object and bool, int, float and string to the Type objects of their data
\* types.
RootGlobalsAfterCreate ==
    (phase = "created" /\ status = "ok") =>
        LET t == st.scopes[RootTable].table
        IN  /\ {kTrueName, kFalseName, kNoneName, kBoolTypeName, kIntTypeName,
                kFloatTypeName, kStringTypeName} \subseteq DOMAIN t
            /\ t[kTrueName].kind = "Expr"
            /\ st.nodes[t[kTrueName].node].type = "Bool"
            /\ st.nodes[t[kTrueName].node].b = TRUE
            /\ t[kFalseName].kind = "Expr"
            /\ st.nodes[t[kFalseName].node].type = "Bool"
            /\ st.nodes[t[kFalseName].node].b = FALSE
            /\ t[kNoneName].kind = "None"
            /\ \A n \in {kBoolTypeName, kIntTypeName, kFloatTypeName, kStringTypeName} :
                   t[n].kind = "Type"
            /\ t[kBoolTypeName].dt = "BOOLEAN"
            /\ t[kIntTypeName].dt = "INT64"
            /\ t[kFloatTypeName].dt = "FLOAT64"
            /\ t[kStringTypeName].dt = "STRING"

\* The evaluator has been created and no statement has been evaluated.
RootGlobalsAfterCreateWitness ==
    /\ phase = "created"
    /\ status = "ok"
    /\ last.op = "Create"
    /\ st.steps = 0

\* The calls of f, a function of the one parameter x, that give it no value,
\* a value too many or a value for a parameter z it does not have.
BadCallStmts(L) ==
    { AssignName(L, "y", CallName(L, 4, "f", <<>>, <<>>)),
      AssignName(L, "y", CallName(L, 4, "f",
                                  <<Number(<<L, 6>>, 1), Number(<<L, 9>>, 2)>>, <<>>)),
      AssignName(L, "y", CallName(L, 4, "f", <<>>,
                                  <<Keyword(<<L, 6>>, "z", Number(<<L, 8>>, 1))>>)) }

\* The argument string parses as a value of the data type.
Coercible(value, dt) ==
    CASE dt = "BOOLEAN" -> value \in {"true", "false", "1", "0"}
      [] dt = "STRING" -> TRUE
      [] dt \in {"INT64", "TIME64NS", "DURATION64NS"} -> value \in {"1", "0", "42"}
      [] dt = "FLOAT64" -> value \in {"1", "0", "42", "2.5"}
      [] OTHER -> FALSE

\* The descriptor passes the checks of the exec entry in the evaluator state s.
ChecksPass(d, s) ==
    LET f == Lookup(s.scopes, RootTable, d.func_name)
    IN  /\ d.func_name # ""
        /\ d.output_table_prefix # ""
        /\ f.kind = "Function"
        /\ \A i \in DOMAIN d.arg_values :
              /\ d.arg_values[i].name \in Range(f.fn.args)
              /\ d.arg_values[i].name \in DOMAIN f.fn.arg_types
              /\ Coercible(d.arg_values[i].value, f.fn.arg_types[d.arg_values[i].name].dt)

\* The calls the exec entry itself made during the step from s to s1, in
\* order.  A call is noted when it ends: a call made inside a function body
\* began when the table of a call that ends later existed already.
ExecCalls(s, s1) ==
    LET c == s1.calls
        top == {i \in DOMAIN c :
                   \A j \in DOMAIN c : j > i => c[j].child > Len(c[i].scopes_before)}
    IN  [k \in 1..Cardinality(top) |->
            c[CHOOSE i \in top : Cardinality({j \in top : j < i}) = k - 1]]

\* The names of the arguments of an exec request that the function it names
\* does not declare.
UndeclaredExecArgs(func) ==
    LET f == Lookup(st.scopes, RootTable, func.func_name)
    IN  IF f.kind # "Function" THEN {}
        ELSE {func.arg_values[k].name : k \in DOMAIN func.arg_values} \ Range(f.fn.args)

\* C8: a call that names a parameter the function does not declare, or leaves
\* a parameter without a value, fails and the body is not run; an exec request
\* with a descriptor that has an argument its function does not declare fails,
\* the function is not called for that descriptor and no coercion of that
\* argument has been tried; when it is the first thing wrong with the request,
\* the error names it and no function has been called at all.
UndeclaredOrMissingParamsFail ==
    /\ ( /\ last.op = "ProcessAssignNode"
         /\ last.input \in BadCallStmts(pc)
         /\ Lookup(st.scopes, RootTable, "f").kind = "Function" )
       => /\ status = "error"
          /\ err.msg \in {"missing required positional arguments",
                          "takes fewer arguments than given",
                          "got an unexpected keyword argument"}
          /\ st.calls = <<>>
    /\ last.op = "ProcessExecFuncs" =>
          \A k \in DOMAIN last.input :
              LET func == last.input[k]
                  f == Lookup(st.scopes, RootTable, func.func_name)
                  Fine(a) == /\ a.name \in Range(f.fn.args)
                             /\ a.name \in DOMAIN f.fn.arg_types
                             /\ Coercible(a.value, f.fn.arg_types[a.name].dt)
              IN  UndeclaredExecArgs(func) # {} =>
                      /\ status = "error"
                      /\ Len(ExecCalls(st, st)) < k
                      /\ UndeclaredExecArgs(func) \cap Range(st.coerced) = {}
                      /\ ( /\ k = 1
                           /\ func.output_table_prefix # ""
                           /\ \E i \in DOMAIN func.arg_values :
                                 /\ func.arg_values[i].name \notin Range(f.fn.args)
                                 /\ \A j \in 1..(i - 1) : Fine(func.arg_values[j]) )
                          => /\ err.msg = "Function does not have an argument called"
                             /\ st.calls = <<>>

\* An exec request has been rejected for its second argument, after the
\* coercion of its first one.
UndeclaredOrMissingParamsFailWitness ==
    /\ last.op = "ProcessExecFuncs"
    /\ \E func \in Range(last.input) : UndeclaredExecArgs(func) # {}
    /\ status = "error"
    /\ st.coerced = <<"x">>

\* C9: when an argument of a call of a user-defined function does not match
\* its annotation, the call fails, no statement of the body has been
\* evaluated, no node has been made and the function's table holds no name
\* but parameters.
AnnotationsCheckedBeforeBody ==
    \A i \in DOMAIN st.calls :
        LET c == st.calls[i]
        IN  ~c.annotations_ok =>
                /\ ~c.ok
                /\ c.steps_after = c.steps_before
                /\ c.next_after = c.next_before
                /\ c.child_names \subseteq c.params

\* f('s') has been called, f's parameter being annotated int.
AnnotationsCheckedBeforeBodyWitness ==
    /\ status = "error"
    /\ \E i \in DOMAIN st.calls : ~st.calls[i].annotations_ok
    /\ err.msg = "Expected type, received"

\* The names a statement may have bound when it fails: the aliases of a
\* from-import that came before the failing one.
ReboundBy(stmt) ==
    IF stmt.type # "ImportFrom" THEN {}
    ELSE IF stmt.names.type = "Tuple"
    THEN {AsNameFromAlias(stmt.names.elements[i]) : i \in DOMAIN stmt.names.elements}
    ELSE {AsNameFromAlias(stmt.names)}

\* What a failing turn j of the statement loop of suite u leaves: the suite
\* returns its error and its state, no turn follows it, and the nodes and the
\* bindings of the turn before are still there.
FailedTurnEndsSuite(u, j, s) ==
    /\ j = Len(u.stmts)
    /\ ~u.ok
    /\ u.err = u.stmts[j].err
    /\ u.nodes = u.stmts[j].nodes
    /\ u.scopes = u.stmts[j].scopes
    /\ (u.nodes \ s.deleted) \subseteq DOMAIN s.nodes
    /\ j > 1 =>
          /\ (u.stmts[j - 1].nodes \ s.deleted) \subseteq u.stmts[j].nodes
          /\ \A n \in DOMAIN u.stmts[j - 1].scopes[u.cur].table :
                /\ n \in DOMAIN u.stmts[j].scopes[u.cur].table
                /\ u.stmts[j].type # "ImportFrom" =>
                       u.stmts[j].scopes[u.cur].table[n]
                           = u.stmts[j - 1].scopes[u.cur].table[n]

\* C11: when a statement of a suite fails, the suite returns that error at
\* once: no later statement of the suite is evaluated and no step is taken
\* after the failure; the nodes and the bindings that were made before are
\* left as they are.
FailureEndsSuite ==
    [][ /\ status = "ok"
        /\ status' = "error" =>
              /\ \A id \in DOMAIN st.nodes \ st'.deleted :
                    id \in DOMAIN st'.nodes /\ st'.nodes[id] = st.nodes[id]
              /\ Len(st'.scopes) >= Len(st.scopes)
              /\ \A n \in DOMAIN st.scopes[RootTable].table :
                    /\ n \in DOMAIN st'.scopes[RootTable].table
                    /\ (last'.op = "ProcessImportFrom" => n \notin ReboundBy(last'.input)) =>
                           st'.scopes[RootTable].table[n] = st.scopes[RootTable].table[n]
        /\ \A i \in DOMAIN st'.suites :
              \A j \in DOMAIN st'.suites[i].stmts :
                  ~st'.suites[i].stmts[j].ok =>
                      FailedTurnEndsSuite(st'.suites[i], j, st')
      ]_vars

\* q() has failed at the second of the three statements of its body, after
\* the first one made a node and bound a name.
FailureEndsSuiteWitness ==
    /\ status = "error"
    /\ \E i \in DOMAIN st.suites :
          LET u == st.suites[i]
          IN  /\ u.fn /\ Len(u.body.items) = 3 /\ Len(u.stmts) = 2
              /\ ~u.stmts[2].ok
              /\ u.stmts[1].nodes \ u.nodes_before # {}
              /\ "a" \in DOMAIN u.scopes[u.cur].table

\* The statements of a suite that its loop runs over: all but a doc string at
\* its head.
LoopItems(body) ==
    IF body.items # <<>> /\ body.items[1].type = "DocString"
    THEN Tail(body.items) ELSE body.items

\* The turns of the loop of suite u are the first k statements of its body,
\* in order.
RanFirst(u, k) ==
    /\ Len(u.stmts) = k
    /\ k <= Len(LoopItems(u.body))
    /\ \A j \in 1..k :
          /\ u.stmts[j].type = LoopItems(u.body)[j].type
          /\ u.stmts[j].at = LoopItems(u.body)[j].at

\* The value of the function body u that has succeeded: that of its first
\* return, after which no statement is evaluated, or None at the end.
BodyValue(u) ==
    LET items == LoopItems(u.body)
        k == Len(u.stmts)
        Returns == {j \in DOMAIN items : items[j].type = "Return"}
    IN  IF Returns = {}
        THEN /\ ~u.ret
             /\ RanFirst(u, Len(items))
             /\ u.obj = NoneObject
        ELSE /\ u.ret
             /\ RanFirst(u, k)
             /\ k \in Returns
             /\ \A j \in Returns : j >= k
             /\ CASE items[k].value.type = "Null" -> u.obj = NoneObject
                  [] items[k].value.type = "Name" ->
                        u.obj = Lookup(u.scopes, u.cur, items[k].value.id)
                  [] items[k].value.type \in {"List", "Tuple"} ->
                        /\ IsCollection(u.obj)
                        /\ u.obj.kind = items[k].value.type
                        /\ Len(u.obj.items) = Len(items[k].value.elements)
                        /\ \A e \in DOMAIN u.obj.items :
                              /\ HasNode(u.obj.items[e])
                              /\ u.obj.items[e].node \in u.nodes
                              /\ u.obj.items[e].node \notin
                                     (IF k > 1 THEN u.stmts[k - 1].nodes
                                      ELSE u.nodes_before)
                  [] OTHER ->
                        /\ HasNode(u.obj)
                        /\ u.obj.node \in u.nodes
                        /\ u.obj.node \notin
                               (IF k > 1 THEN u.stmts[k - 1].nodes ELSE u.nodes_before)

\* C12: a function body that succeeds gives the value of the first return it
\* reaches (None for a bare return) and evaluates no statement after it; a
\* body without a return gives None after all its statements, in order.  The
\* call gives the value of the body.
ReturnEndsBody ==
    /\ \A i \in DOMAIN st.suites :
          (st.suites[i].fn /\ st.suites[i].ok) => BodyValue(st.suites[i])
    /\ \A i \in DOMAIN st.calls :
          st.calls[i].suite # 0 =>
              /\ st.suites[st.calls[i].suite].fn
              /\ st.suites[st.calls[i].suite].cur = st.calls[i].child
              /\ st.calls[i].ok = st.suites[st.calls[i].suite].ok
              /\ st.calls[i].obj = st.suites[st.calls[i].suite].obj
    /\ ( /\ last.op = "ProcessAssignNode" /\ status = "ok"
         /\ Len(last.input.targets) = 1
         /\ last.input.targets[1].type = "Name"
         /\ last.input.value.type = "Call"
         /\ st.calls # <<>> )
       => st.scopes[RootTable].table[last.input.targets[1].id]
              = st.calls[Len(st.calls)].obj

\* r() has returned None from the bare return at the head of its body, the
\* statement after it not evaluated.
ReturnEndsBodyWitness ==
    /\ status = "ok"
    /\ \E i \in DOMAIN st.calls :
          /\ st.calls[i].ok /\ st.calls[i].obj = NoneObject
          /\ st.suites[st.calls[i].suite].ret
          /\ Len(st.suites[st.calls[i].suite].stmts)
                 < Len(st.suites[st.calls[i].suite].body.items)

\* Table `sid` of s binds __doc__ to an Expr over a String node that holds the
\* doc string at the head of `body`, or the empty string if there is none.
DocBound(s, sid, body) ==
    LET table == s.scopes[sid].table
    IN  /\ "__doc__" \in DOMAIN table
        /\ table["__doc__"].kind = "Expr"
        /\ table["__doc__"].node \in DOMAIN s.nodes
        /\ s.nodes[table["__doc__"].node].type = "String"
        /\ s.nodes[table["__doc__"].node].s =
               (IF body.items[1].type = "DocString" THEN body.items[1].doc ELSE "")

\* The bindings of __doc__ in the tables of `scopes`.
DocBindings(scopes) ==
    [sid \in {i \in DOMAIN scopes : "__doc__" \in DOMAIN scopes[i].table} |->
        scopes[sid].table["__doc__"]]

\* C13: the head of a module suite binds __doc__ in the suite's table, to
\* the doc string the suite starts with or to the empty string, and the
\* binding is the same when the suite has been processed; a function body
\* binds __doc__ in no table, with or without a doc string at its head.
ModuleDocBound ==
    [][ /\ (last'.op = "BeginSuite" /\ status' = "ok") =>
              /\ DocBindings(st.scopes) = <<>>
              /\ DocBound(st', RootTable, last'.input)
        /\ phase \in {"eval", "done"} =>
              /\ DocBindings(st'.scopes) = DocBindings(st.scopes)
              /\ DOMAIN DocBindings(st.scopes) = {RootTable}
              /\ st'.nodes[st.scopes[RootTable].table["__doc__"].node]
                     = st.nodes[st.scopes[RootTable].table["__doc__"].node]
        /\ \A i \in DOMAIN st'.suites :
              IF st'.suites[i].fn
              THEN DocBindings(st'.suites[i].scopes)
                       = DocBindings(st'.suites[i].scopes_before)
              ELSE st'.suites[i].ok =>
                       DocBound([scopes |-> st'.suites[i].scopes, nodes |-> st'.nodes],
                                st'.suites[i].cur, st'.suites[i].body)
      ]_vars

\* In a module that starts with a doc string, p, whose body starts with a doc
\* string too, has been defined and called.
ModuleDocBoundWitness ==
    /\ status = "ok" /\ phase = "eval"
    /\ st.nodes[st.scopes[RootTable].table["__doc__"].node].s = "doc"
    /\ \E i \in DOMAIN st.suites :
          /\ st.suites[i].fn /\ st.suites[i].ok
          /\ st.suites[i].body.items[1].type = "DocString"

\* The statement kinds the switch of ProcessASTSuite has a handler for.
HandledStmtTypes ==
    {"Import", "ImportFrom", "ExpressionStatement", "Assign", "FunctionDef", "Return"}

\* The message of the error for a statement the switch rejects.
RejectionOf(stmt_type) ==
    CASE stmt_type = "DocString" ->
            "Doc strings are only allowed at the start of a module or function."
      [] stmt_type = "Return" -> "'return' outside function"
      [] OTHER -> "Can't parse expression of type"

\* C14: a doc string after the head of a suite, a return in a suite that is
\* no function body, a statement of a kind without a handler and a suite
\* without statements each fail with an error at the place of the statement
\* (of the suite); the script fails with it.
UnhandledStatementsFail ==
    /\ last.op = "Rejected" =>
          /\ status = "error"
          /\ err.msg = RejectionOf(last.input.type)
          /\ err.has_loc /\ <<err.line, err.col>> = last.input.at
    /\ \A i \in DOMAIN st.events :
          st.events[i].type \notin HandledStmtTypes =>
              /\ ~st.events[i].ok
              /\ st.events[i].err.msg = RejectionOf(st.events[i].type)
              /\ <<st.events[i].err.line, st.events[i].err.col>> = st.events[i].at
              /\ status = "error" /\ err = st.events[i].err
    /\ \A i \in DOMAIN st.suites :
          /\ st.suites[i].body.items = <<>> =>
                /\ ~st.suites[i].ok
                /\ st.suites[i].stmts = <<>>
                /\ st.suites[i].err.msg = "No runnable code found"
                /\ status = "error"
          /\ ~st.suites[i].fn =>
                \A j \in DOMAIN st.suites[i].stmts :
                    st.suites[i].stmts[j].type = "Return" => ~st.suites[i].stmts[j].ok

\* q() has failed at the doc string that is the second statement of its body.
UnhandledStatementsFailWitness ==
    /\ status = "error"
    /\ last.op = "ProcessExprStmtNode"
    /\ \E i \in DOMAIN st.events :
          st.events[i].type = "DocString" /\ ~st.events[i].ok /\ st.events[i].cur # RootTable

\* C15: an assignment with no target or with several, with a target that is
\* no Name, Subscript or Attribute, with a subscript target on a value that is
\* no Dataframe, or with a subscript or attribute target on a Dataframe that
\* is not written as a bare name, fails and leaves every binding as it was.
MisusedTargetFails ==
    [][ (last'.op = "ProcessAssignNode" /\ last'.input \in MisusedTargetStmts(pc')) =>
            /\ status' = "error"
            /\ err'.has_loc /\ err'.line = pc'
            /\ st'.scopes = st.scopes
            /\ st'.module_handler = st.module_handler
      ]_vars

\* px.DataFrame('t')['x'] = 1 has been rejected by the map-assignment, its
\* two sides evaluated.
MisusedTargetFailsWitness ==
    /\ status = "error"
    /\ last.op = "ProcessAssignNode"
    /\ last.input \in MisusedTargetStmts(pc)
    /\ err.msg = "Can only assign to Dataframe by subscript from Name"
    /\ last.input.targets[1].type = "Subscript"

RECURSIVE Shape(_, _)
\* The node `id` of the arena `nodes` with its operands in place of their ids.
Shape(nodes, id) ==
    [type |-> nodes[id].type, b |-> nodes[id].b, n |-> nodes[id].n, s |-> nodes[id].s,
     at |-> nodes[id].at, parents |-> nodes[id].parents,
     args |-> [i \in DOMAIN nodes[id].args |-> Shape(nodes, nodes[id].args[i])]]

\* df['k'] = rhs for the statement df.k = rhs, and the other way round.
SubscriptForm(stmt) ==
    Assign(stmt.at,
           <<Subscript(stmt.targets[1].at, stmt.targets[1].value,
                       Index(Str(stmt.targets[1].at, stmt.targets[1].attribute.id)))>>,
           stmt.value)

AttributeForm(stmt) ==
    Assign(stmt.at,
           <<Attribute(stmt.targets[1].at, stmt.targets[1].value,
                       stmt.targets[1].slice.value.value)>>,
           stmt.value)

\* The statement assigns to df.k or to df['k'] for a bare name df that the
\* tables `scopes` bind to a Dataframe.
IsMapAssignment(stmt, scopes) ==
    /\ Len(stmt.targets) = 1
    /\ \/ stmt.targets[1].type = "Attribute"
       \/ /\ stmt.targets[1].type = "Subscript"
          /\ stmt.targets[1].slice.type = "Index"
          /\ stmt.targets[1].slice.value.type = "Str"
    /\ stmt.targets[1].value.type = "Name"
    /\ Lookup(scopes, RootTable, stmt.targets[1].value.id).kind = "Dataframe"

\* The map-assignment to `name` that led from s0 to s1 (with success if ok1)
\* has the effect of the one that leads from s0 to the result r2.
SameMapAssignment(name, s0, s1, ok1, r2) ==
    /\ ok1 = r2.ok
    /\ ok1 =>
          LET d0 == s0.scopes[RootTable].table[name]
              d1 == s1.scopes[RootTable].table[name]
              d2 == r2.st.scopes[RootTable].table[name]
          IN  /\ d1.kind = "Dataframe" /\ d2.kind = "Dataframe"
              /\ d1.node \notin DOMAIN s0.nodes /\ d2.node \notin DOMAIN s0.nodes
              /\ s1.nodes[d1.node].type = "Map"
              /\ s1.nodes[d1.node].parents = <<d0.node>>
              /\ Shape(s1.nodes, d1.node) = Shape(r2.st.nodes, d2.node)
              /\ Len(s1.scopes) = Len(r2.st.scopes)
              /\ \A sid \in DOMAIN s1.scopes :
                    /\ DOMAIN s1.scopes[sid].table = DOMAIN r2.st.scopes[sid].table
                    /\ \A n \in DOMAIN s1.scopes[sid].table :
                          (sid # RootTable \/ n # name) =>
                              /\ s1.scopes[sid].table[n] = r2.st.scopes[sid].table[n]
                              /\ s1.scopes[sid].table[n] = s0.scopes[sid].table[n]
              /\ Cardinality(s1.lhs_cols \ s0.lhs_cols) = 1
              /\ s1.deleted \ s0.deleted = s1.lhs_cols \ s0.lhs_cols
              /\ Cardinality(r2.st.lhs_cols \ s0.lhs_cols) = 1
              /\ r2.st.deleted \ s0.deleted = r2.st.lhs_cols \ s0.lhs_cols

\* C16: for a bare name df bound to a Dataframe, df.k = rhs and df['k'] = rhs
\* run from the same state succeed or fail together; when they succeed both
\* rebind df, and nothing else, to a new Dataframe over a Map of the original
\* operator that sets k to the same expression, and both delete the column
\* made for the left-hand side.
AttributeFormIsSubscriptForm ==
    [][ ( /\ last'.op = "ProcessAssignNode"
          /\ status' # "crashed"
          /\ IsMapAssignment(last'.input, st.scopes) ) =>
            SameMapAssignment(last'.input.targets[1].value.id, st, st', status' = "ok",
                ProcessAssignNode(IF last'.input.targets[1].type = "Attribute"
                                  THEN SubscriptForm(last'.input)
                                  ELSE AttributeForm(last'.input),
                                  RootTable, Fresh(st)))
      ]_vars

\* df.b = +df['a'] has succeeded.
AttributeFormIsSubscriptFormWitness ==
    /\ status = "ok"
    /\ last.op = "ProcessAssignNode"
    /\ last.input.targets[1].type = "Attribute"
    /\ st.massigns # <<>>
    /\ st.nodes[Lookup(st.scopes, RootTable, "df").node].s = "b"

\* The object with the attribute `name` set to `value`.
WithAttribute(obj, name, value) ==
    [obj EXCEPT !.attrs = [n \in DOMAIN obj.attrs \cup {name} |->
                              IF n = name THEN value ELSE obj.attrs[n]]]

\* The tables bind the names they bound, each to the object it was bound to:
\* `target` as it is now, `new`, where it was bound to `target`.
SameBindings(scopes0, scopes1, target, new) ==
    /\ Len(scopes1) = Len(scopes0)
    /\ \A sid \in DOMAIN scopes0 :
          /\ scopes1[sid].parent = scopes0[sid].parent
          /\ DOMAIN scopes1[sid].table = DOMAIN scopes0[sid].table
          /\ \A n \in DOMAIN scopes0[sid].table :
                scopes1[sid].table[n] =
                    (IF scopes0[sid].table[n] = target THEN new
                     ELSE scopes0[sid].table[n])

\* C17: obj.name = rhs for a bound object that is no Dataframe evaluates rhs,
\* of whatever kind of expression, as Process does, and hands the value to
\* the object's AssignAttribute under `name`; the statement fails as the
\* evaluation of rhs does; no table gets or loses a name and no name is bound
\* to another object.
AttributeAssignEvaluatesAnyRhs ==
    [][ ( /\ last'.op = "ProcessAssignNode"
          /\ last'.input \in AttributeAssignStmts(pc')
          /\ Lookup(st.scopes, RootTable, "px").kind \notin {"Null", "Dataframe"} ) =>
            LET target == Lookup(st.scopes, RootTable, "px")
                value == Process(last'.input.value, EmptyContext, RootTable, Fresh(st))
            IN  IF value.ok
                THEN /\ status' = "ok"
                     /\ st'.nodes = value.st.nodes
                     /\ Lookup(st'.scopes, RootTable, "px")
                            = WithAttribute(target, "v", value.obj)
                     /\ SameBindings(st.scopes, st'.scopes, target,
                                     WithAttribute(target, "v", value.obj))
                ELSE /\ status' = "error"
                     /\ err' = value.err
                     /\ st'.scopes = st.scopes
      ]_vars

\* px.v = 1 + 2 has bound v, in the module px, to an Expr over the Func node
\* of the sum.
AttributeAssignEvaluatesAnyRhsWitness ==
    /\ status = "ok"
    /\ last.op = "ProcessAssignNode"
    /\ last.input \in AttributeAssignStmts(pc)
    /\ last.input.value.type = "BinOp"
    /\ "v" \in DOMAIN Lookup(st.scopes, RootTable, "px").attrs
    /\ st.nodes[Lookup(st.scopes, RootTable, "px").attrs["v"].node].type = "Func"

\* The scopes with `name` bound to `obj` in the root table and nothing else
\* changed.
BoundInRoot(scopes, name, obj) ==
    [scopes EXCEPT ![RootTable].table =
        [n \in DOMAIN scopes[RootTable].table \cup {name} |->
            IF n = name THEN obj ELSE scopes[RootTable].table[n]]]

\* C18: `import M` binds M, and `import M as N` binds N, to the Module the
\* module handler holds under M, and changes no other binding; when the
\* handler has no M the statement fails with a module-not-found error and no
\* binding changes.
ImportBindsOneName ==
    [][ last'.op = "ProcessImport" =>
            LET alias == last'.input.names
                M == alias.name.id
                N == IF alias.as_name.type = "Null" THEN M ELSE alias.as_name.id
            IN  IF M \in DOMAIN st.module_handler
                THEN /\ status' = "ok"
                     /\ st.module_handler[M].kind = "Module"
                     /\ st'.scopes = BoundInRoot(st.scopes, N, st.module_handler[M])
                     /\ st'.module_handler = st.module_handler
                     /\ st'.nodes = st.nodes
                ELSE /\ status' = "error"
                     /\ err'.msg = "ModuleNotFoundError: No module named"
                     /\ err'.arg = M
                     /\ st'.scopes = st.scopes
      ]_vars

\* import px as df, after a statement that made nodes, has bound df to the
\* module and has not bound px.
ImportBindsOneNameWitness ==
    /\ status = "ok"
    /\ last.op = "ProcessImport"
    /\ last.input.names.as_name.type = "Name"
    /\ last.input.names.as_name.id = "df"
    /\ Lookup(st.scopes, RootTable, "df") = st.module_handler["px"]
    /\ Lookup(st.scopes, RootTable, "px").kind = "Null"
    /\ Len(st.nodes) > 0

\* The aliases of a from-import, in the order of the statement.
AliasesOf(from) ==
    IF from.names.type = "Tuple" THEN from.names.elements ELSE <<from.names>>

\* The name an alias binds.
BoundNameOf(alias) ==
    IF alias.as_name.type = "Null" THEN alias.name.id ELSE alias.as_name.id

\* The position of the first alias whose name is no attribute of the module,
\* or one past the last alias.
FirstMissing(module, aliases) ==
    LET missing == {i \in DOMAIN aliases : aliases[i].name.id \notin DOMAIN module.attrs}
    IN  IF missing = {} THEN Len(aliases) + 1
        ELSE CHOOSE i \in missing : \A j \in missing : i <= j

RECURSIVE AliasesBound(_, _, _, _)
\* The scopes after the first k aliases were bound, one after the other, each
\* to the module's attribute of its name.
AliasesBound(scopes, module, aliases, k) ==
    IF k = 0 THEN scopes
    ELSE BoundInRoot(AliasesBound(scopes, module, aliases, k - 1),
                     BoundNameOf(aliases[k]), module.attrs[aliases[k].name.id])

\* C19: from M import x [as y], ... fails and changes no binding when its
\* level is not 0 or the module handler has no M; otherwise the aliases are
\* bound in order, each to M's attribute of its name, up to the first alias
\* whose name is no attribute of M: there the statement fails with an error
\* at the location of the import statement, and that alias and the ones after
\* it are not bound.
ImportFromBindsInOrder ==
    [][ ( /\ last'.op = "ProcessImportFrom"
          /\ last'.input.names.type \in {"Tuple", "Alias"} ) =>
            LET from == last'.input
                M == from.module.id
                aliases == AliasesOf(from)
            IN  IF from.level # 0 \/ M \notin DOMAIN st.module_handler
                THEN status' = "error" /\ st'.scopes = st.scopes
                ELSE LET module == st.module_handler[M]
                         k == FirstMissing(module, aliases)
                     IN  /\ st'.scopes = AliasesBound(st.scopes, module, aliases, k - 1)
                         /\ IF k > Len(aliases) THEN status' = "ok"
                            ELSE /\ status' = "error"
                                 /\ err'.msg = "cannot import name"
                                 /\ err'.arg = aliases[k].name.id
                                 /\ err'.has_loc
                                 /\ <<err'.line, err'.col>> = from.at
      ]_vars

\* from px import DataFrame as D, nothing, DataFrame as E has failed at
\* `nothing`, at the location of the statement: D is bound and E is not.
ImportFromBindsInOrderWitness ==
    /\ status = "error"
    /\ last.op = "ProcessImportFrom"
    /\ last.input.names.type = "Tuple"
    /\ Len(last.input.names.elements) = 3
    /\ err.arg = "nothing"
    /\ <<err.line, err.col>> = last.input.at
    /\ Lookup(st.scopes, RootTable, "D").kind = "Function"
    /\ Lookup(st.scopes, RootTable, "E").kind = "Null"

\* The function definition has a default value, *args or **kwargs.
HasUnsupportedParam(def) ==
    \/ \E i \in DOMAIN def.args.defaults : def.args.defaults[i].type # "Null"
    \/ def.args.args.type # "Null"
    \/ def.args.kwargs.type # "Null"

\* C20: a function definition with *args, **kwargs or a default value fails,
\* and the name of the function is bound after it as it was before: to the
\* object it had, or not at all; no other binding changes either.
UnsupportedParamsRejected ==
    [][ ( /\ last'.op = "ProcessFunctionDefNode"
          /\ HasUnsupportedParam(last'.input) ) =>
            /\ status' = "error"
            /\ err'.msg \in {"default values not supported in function definitions",
                             "variable length args are not supported in function definitions",
                             "variable length kwargs are not supported in function definitions"}
            /\ Lookup(st'.scopes, RootTable, last'.input.name.id)
                    = Lookup(st.scopes, RootTable, last'.input.name.id)
            /\ st'.scopes = st.scopes
      ]_vars

\* def f(a, *args) has failed where f was bound to a function defined before,
\* and f is still that function, of the parameter x.
UnsupportedParamsRejectedWitness ==
    /\ status = "error"
    /\ last.op = "ProcessFunctionDefNode"
    /\ last.input.name.id = "f"
    /\ last.input.args.args.type = "Name"
    /\ Lookup(st.scopes, RootTable, "f").kind = "Function"
    /\ Lookup(st.scopes, RootTable, "f").fn.args = <<"x">>

\* What the definition binds its name to when its decorators are left out.
Undecorated(def, s) ==
    Lookup(ProcessFunctionDefNode([def EXCEPT !.decorators = <<>>], RootTable,
                                  Fresh(s)).st.scopes,
           RootTable, def.name.id)

\* C21: a function definition with one decorator evaluates the decorator,
\* calls it with the new function (still without doc string and resolved
\* annotations) as the only positional argument and without keywords, and
\* binds the name to the callable of what the call gave, with the doc string
\* of the body and the resolved annotations attached; when the decorator
\* cannot be evaluated or called, or what it gives is not callable, the
\* definition fails and no binding changes.
DecoratorResultIsBound ==
    [][ ( /\ last'.op = "ProcessFunctionDefNode"
          /\ Len(last'.input.decorators) = 1
          /\ ~HasUnsupportedParam(last'.input) ) =>
            LET def == last'.input
                d == def.decorators[1]
                plain == Undecorated(def, st)
                defined_func == [plain EXCEPT !.fn.doc = "", !.fn.arg_types = <<>>]
                dec_fn == Process(d, EmptyContext, RootTable, Fresh(st))
                callee == GetCallMethod(d, dec_fn.obj, dec_fn.st)
                result == FuncObjectCall(callee.obj,
                                         [args |-> <<defined_func>>, kwargs |-> <<>>],
                                         d, callee.st)
                final == GetCallMethod(d, result.obj, result.st)
                Rejected == status' = "error" /\ st'.scopes = st.scopes
            IN  IF ~dec_fn.ok THEN Rejected
                ELSE IF ~callee.ok THEN Rejected
                ELSE IF ~result.ok THEN Rejected
                ELSE IF ~final.ok THEN Rejected
                ELSE /\ status' = "ok"
                     /\ Lookup(st'.scopes, RootTable, def.name.id)
                            = [final.obj EXCEPT !.fn.doc = plain.fn.doc,
                                                !.fn.arg_types = plain.fn.arg_types]
                     /\ DOMAIN st'.scopes[RootTable].table
                            = DOMAIN st.scopes[RootTable].table \cup {def.name.id}
      ]_vars

\* @other def k(x: int): 'doc'; return x has bound k to the function `other`,
\* which the decorator returned, with the doc string and the annotation of k.
DecoratorResultIsBoundWitness ==
    /\ status = "ok"
    /\ last.op = "ProcessFunctionDefNode"
    /\ Len(last.input.decorators) = 1
    /\ last.input.name.id = "k"
    /\ Lookup(st.scopes, RootTable, "k").kind = "Function"
    /\ Lookup(st.scopes, RootTable, "k").name = "other"
    /\ Lookup(st.scopes, RootTable, "k").fn.args = <<"fn">>
    /\ Lookup(st.scopes, RootTable, "k").fn.doc = "doc"
    /\ DOMAIN Lookup(st.scopes, RootTable, "k").fn.arg_types = {"x"}

\* C22: a call statement whose callee evaluates to an Expr fails, with
\* "dataframe has no method <col>" when the Expr is a Column and with
\* "expression object is not callable" otherwise, and the arena is as the
\* evaluation of the callee left it: no argument was evaluated.
ExprCalleeFailsBeforeArgs ==
    [][ ( /\ last'.op = "ProcessExprStmtNode"
          /\ last'.input.expr.type = "Call"
          /\ Process(last'.input.expr.function, EmptyContext, RootTable, Fresh(st)).ok
          /\ Process(last'.input.expr.function, EmptyContext, RootTable,
                     Fresh(st)).obj.kind = "Expr" ) =>
            LET call == last'.input.expr
                callee == Process(call.function, EmptyContext, RootTable, Fresh(st))
                node == callee.st.nodes[callee.obj.node]
            IN  /\ status' = "error"
                /\ IF node.type = "Column"
                   THEN err'.msg = "dataframe has no method" /\ err'.arg = node.s
                   ELSE err'.msg = "expression object is not callable"
                /\ st'.nodes = callee.st.nodes
                /\ st'.next_id = callee.st.next_id
                /\ st'.scopes = st.scopes
      ]_vars

\* df.a(2, k='s') has failed: the newest node of the arena is the Column a of
\* the callee, and no node stands for an argument.
ExprCalleeFailsBeforeArgsWitness ==
    /\ status = "error"
    /\ last.op = "ProcessExprStmtNode"
    /\ last.input.expr.type = "Call"
    /\ Len(last.input.expr.arguments) = 1
    /\ Len(last.input.expr.keywords) = 1
    /\ err.msg = "dataframe has no method"
    /\ err.arg = "a"
    /\ st.next_id - 1 \in DOMAIN st.nodes
    /\ st.nodes[st.next_id - 1].type = "Column"
    /\ \A id \in DOMAIN st.nodes :
          st.nodes[id].at \notin {last.input.expr.arguments[1].at,
                                  last.input.expr.keywords[1].value.at}

\* C23: a chained comparison is rejected with an ordinary error, the process
\* goes on, and no Func node is made for it.
ChainedCompareRejected ==
    last.op = "ProcessDataCompare" =>
        /\ status = "error"
        /\ err.msg = "Only expected one argument to the right of"
        /\ \A id \in DOMAIN st.nodes :
              st.nodes[id].type = "Func" => st.nodes[id].at[1] # pc

\* The sinks named `prefix` that the step from s to s1 created.
NewSinks(s, s1, prefix) ==
    {id \in DOMAIN s1.nodes \ DOMAIN s.nodes :
        s1.nodes[id].type = "MemorySink" /\ s1.nodes[id].s = prefix}

\* Exactly one of the sinks is as described: plain or with the index, fed by
\* the operator of `df`.
OneSink(s1, sinks, indexed, index, df) ==
    Cardinality({id \in sinks : /\ s1.nodes[id].b = indexed
                                /\ s1.nodes[id].n = index
                                /\ s1.nodes[id].parents = <<df.node>>}) = 1

\* C24: for the value an executed function returned, the exec entry creates
\* one sink named by the prefix and fed by the Dataframe's operator when the
\* value is a Dataframe, and the sinks prefix[0] .. prefix[n-1], sink i fed by
\* item i, when it is a Collection of n Dataframes; for a value that is
\* neither, or a Collection with an item that is no Dataframe, the exec entry
\* fails.
SinksFollowReturnValue ==
    [][ last'.op = "ProcessExecFuncs" =>
            \A k \in DOMAIN ExecCalls(st, st') :
                LET func == last'.input[k]
                    ret == ExecCalls(st, st')[k].obj
                    sinks == NewSinks(st, st', func.output_table_prefix)
                IN  ( /\ ExecCalls(st, st')[k].ok
                      /\ \A j \in DOMAIN last'.input :
                            j # k => last'.input[j].output_table_prefix
                                        # func.output_table_prefix ) =>
                    IF ret.kind = "Dataframe"
                    THEN Cardinality(sinks) = 1 /\ OneSink(st', sinks, FALSE, 0, ret)
                    ELSE IF IsCollection(ret)
                            /\ \A i \in DOMAIN ret.items : ret.items[i].kind = "Dataframe"
                    THEN /\ Cardinality(sinks) = Len(ret.items)
                         /\ \A i \in DOMAIN ret.items :
                               OneSink(st', sinks, TRUE, i - 1, ret.items[i])
                    ELSE status' = "error"
      ]_vars

\* The exec entry ran `two` with the prefix "out": the sinks out[0] and out[1]
\* exist and are fed by two different sources.
SinksFollowReturnValueWitness ==
    /\ status = "ok"
    /\ phase = "exec"
    /\ Len(last.input) = 1
    /\ last.input[1].func_name = "two"
    /\ \E a, b \in DOMAIN st.nodes :
          /\ st.nodes[a].type = "MemorySink" /\ st.nodes[b].type = "MemorySink"
          /\ st.nodes[a].s = "out" /\ st.nodes[b].s = "out"
          /\ st.nodes[a].b /\ st.nodes[b].b
          /\ st.nodes[a].n = 0 /\ st.nodes[b].n = 1
          /\ st.nodes[a].parents # st.nodes[b].parents
          /\ st.nodes[st.nodes[a].parents[1]].s = "t"
          /\ st.nodes[st.nodes[b].parents[1]].s = "u"

\* C29: the exec entry takes the descriptors in list order and calls a
\* descriptor's function only when the descriptor and every one before it
\* passed the checks (names given, name bound to a Function, every argument a
\* declared and annotated parameter with a string that coerces); at the first
\* descriptor that fails one, the exec entry returns an error, runs no body
\* for it or a later one, and the only sinks made are those of the
\* descriptors before it, which remain.
ExecChecksBeforeCalls ==
    [][ last'.op = "ProcessExecFuncs" =>
            LET d == last'.input
                bad == {k \in DOMAIN d : ~ChecksPass(d[k], st)}
                calls == ExecCalls(st, st')
                sinks == {id \in DOMAIN st'.nodes \ DOMAIN st.nodes :
                             st'.nodes[id].type = "MemorySink"}
            IN  /\ Len(calls) <= Len(d)
                /\ \A k \in DOMAIN calls :
                      /\ \A j \in 1..k : j \notin bad
                      /\ calls[k].params =
                            Range(Lookup(st.scopes, RootTable, d[k].func_name).fn.args)
                /\ \A i \in DOMAIN st'.suites :
                      st'.suites[i].fn =>
                          \E k \in DOMAIN calls : st'.suites[i].cur = calls[k].child
                /\ bad # {} =>
                      LET k0 == CHOOSE k \in bad : \A j \in bad : k <= j
                      IN  /\ status' = "error"
                          /\ Len(calls) < k0
                          /\ \A id \in sinks :
                                \E j \in 1..(k0 - 1) :
                                    st'.nodes[id].s = d[j].output_table_prefix
                          /\ \A j \in 1..(k0 - 1) :
                                (calls[j].ok /\ IsCollection(calls[j].obj)
                                    /\ \A x \in DOMAIN calls[j].obj.items :
                                          calls[j].obj.items[x].kind = "Dataframe") =>
                                Cardinality(NewSinks(st, st', d[j].output_table_prefix))
                                    = Len(calls[j].obj.items)
      ]_vars

\* The exec entry ran `two` with the prefix "first" and then met chk with the
\* arguments b and a: b was coerced, a has no annotation, the two sinks of
\* `two` exist and chk was never called.
ExecChecksBeforeCallsWitness ==
    /\ phase = "exec"
    /\ status = "error"
    /\ err.msg = "Arg type annotation required."
    /\ Len(last.input) = 2
    /\ last.input[1].func_name = "two"
    /\ last.input[2].func_name = "chk"
    /\ st.coerced = <<"b">>
    /\ Len(st.calls) = 1
    /\ Cardinality({id \in DOMAIN st.nodes :
                       st.nodes[id].type = "MemorySink" /\ st.nodes[id].s = "first"}) = 2
    /\ \A id \in DOMAIN st.nodes :
          st.nodes[id].type = "MemorySink" => st.nodes[id].s # "out"

\* The nodes the last step added to the arena.
Created1(s, s1) == DOMAIN s1.nodes \ DOMAIN s.nodes

\* The step made exactly one node, a literal of the variant with the value.
OneLiteral(s, s1, variant, b, n, str) ==
    /\ Cardinality(Created1(s, s1)) = 1
    /\ \A id \in Created1(s, s1) :
          /\ s1.nodes[id].type = variant
          /\ s1.nodes[id].b = b
          /\ s1.nodes[id].n = n
          /\ s1.nodes[id].s = str

\* C25: an argument string is coerced into the literal its annotated data
\* type fixes: Bool for BOOLEAN, String (the string as it is) for STRING, Int
\* for INT64, Float for FLOAT64, Time holding the integer for TIME64NS and for
\* DURATION64NS; a string that does not parse as the type, UINT128 and a type
\* without a concrete data type give an error and no node.
CoercionFollowsAnnotation ==
    [][ last'.op = "ParseStringAsType" =>
            LET value == last'.input.value
                dt == last'.input.dt
                Literal(variant, b, n, str) ==
                    status' = "ok" /\ OneLiteral(st, st', variant, b, n, str)
                Refused == status' = "error" /\ st'.nodes = st.nodes
            IN  CASE dt = "BOOLEAN" ->
                        IF value \in {"true", "1"} THEN Literal("Bool", TRUE, 0, "")
                        ELSE IF value \in {"false", "0"} THEN Literal("Bool", FALSE, 0, "")
                        ELSE Refused
                  [] dt = "STRING" -> Literal("String", FALSE, 0, value)
                  [] dt = "INT64" ->
                        IF value \in DOMAIN SimpleAtoi
                        THEN Literal("Int", FALSE, SimpleAtoi[value], "")
                        ELSE Refused
                  [] dt = "FLOAT64" ->
                        IF value \in DOMAIN SimpleAtod
                        THEN Literal("Float", FALSE, SimpleAtod[value], "")
                        ELSE Refused
                  [] dt \in {"TIME64NS", "DURATION64NS"} ->
                        IF value \in DOMAIN SimpleAtoi
                        THEN Literal("Time", FALSE, SimpleAtoi[value], "")
                        ELSE Refused
                  [] OTHER -> Refused
      ]_vars

\* "42" was coerced for a DURATION64NS parameter: the newest node is the Time
\* literal 42.
CoercionFollowsAnnotationWitness ==
    /\ status = "ok"
    /\ last.op = "ParseStringAsType"
    /\ last.input.dt = "DURATION64NS"
    /\ last.input.value = "42"
    /\ st.next_id - 1 \in DOMAIN st.nodes
    /\ st.nodes[st.next_id - 1].type = "Time"
    /\ st.nodes[st.next_id - 1].n = 42

\* The names of the module map the evaluator was or is being created for.
MapNames ==
    IF last.op = "Create" THEN {last.input[i].name : i \in DOMAIN last.input}
    ELSE DOMAIN st.module_handler \ {kPixieModuleObjName}

\* C26: the module handler is complete before any script text is evaluated,
\* the text of the user modules included: no import of the platform module or
\* of a module of the module map, in a module's text or in the main script,
\* fails to find its module, in whatever order the module map is traversed.
ImportsFindEveryModule ==
    ~ /\ status = "error"
      /\ err.msg = "ModuleNotFoundError: No module named"
      /\ err.arg \in MapNames \cup {kPixieModuleObjName}

\* C28: the unary-operator lookup gives the opcode of the unary-operator table
\* for a symbol of that table, and for any other symbol, those of the
\* binary-operator table included, the error 'Unary Operator not handled',
\* with no Func node made for the expression.
UnaryLookupTotalExact ==
    last.op = "GetUnaryOp" =>
        IF last.input \in DOMAIN unary_op_map
        THEN /\ status = "ok"
             /\ Len(st.unops) = 1
             /\ st.unops[1].op = unary_op_map[last.input]
        ELSE /\ status = "error"
             /\ err.msg = "Unary Operator not handled"
             /\ err.arg = last.input
             /\ \A id \in DOMAIN st.nodes :
                   st.nodes[id].type = "Func" => st.nodes[id].at[1] # pc

\* C30: a single expression parsed and evaluated with the platform-module
\* import requested leaves every table of the caller as it was, bindings and
\* bound objects, whether it succeeds or fails, the name `px` being bound in a
\* child table only; and a text that is not exactly one expression statement
\* is rejected with an error and nothing is added to the arena.
SingleExpressionKeepsCallerScope ==
    [][ last'.op = "ParseAndProcessSingleExpression" =>
            LET items == last'.input.ast.module.body.items
            IN  /\ \A sid \in DOMAIN st.scopes : st'.scopes[sid] = st.scopes[sid]
                /\ st'.module_handler = st.module_handler
                /\ last'.input.import_px /\ last'.input.ast.ok =>
                      /\ Len(st'.scopes) = Len(st.scopes) + 1
                      /\ st'.scopes[Len(st'.scopes)].parent = RootTable
                      /\ st'.scopes[Len(st'.scopes)].table =
                             [n \in {kPixieModuleObjName} |->
                                 st.module_handler[kPixieModuleObjName]]
                /\ (~last'.input.ast.ok \/ Len(items) # 1
                        \/ items[1].type # "ExpressionStatement") =>
                      /\ status' = "error"
                      /\ st'.nodes = st.nodes /\ st'.next_id = st.next_id
                /\ (last'.input.ast.ok /\ last'.input.import_px /\ Len(items) = 1
                        /\ items[1].type = "ExpressionStatement"
                        /\ items[1].expr.type = "Name"
                        /\ items[1].expr.id = kPixieModuleObjName) =>
                      status' = "ok" ]_vars

\* `px` was evaluated with the import requested by a visitor whose tables do
\* not bind px, and succeeded.
SingleExpressionKeepsCallerScopeWitness ==
    /\ last.op = "ParseAndProcessSingleExpression"
    /\ last.input.import_px /\ last.input.ast.ok
    /\ Len(last.input.ast.module.body.items) = 1
    /\ last.input.ast.module.body.items[1].type = "ExpressionStatement"
    /\ last.input.ast.module.body.items[1].expr.type = "Name"
    /\ last.input.ast.module.body.items[1].expr.id = kPixieModuleObjName
    /\ status = "ok"
    /\ Lookup(st.scopes, RootTable, kPixieModuleObjName).kind = "Null"
    /\ Lookup(st.scopes, Len(st.scopes), kPixieModuleObjName).kind = "Module"

\* C10: every error carries the line and column of a construct of the script.
AllErrorsLocated ==
    status = "error" => (err.has_loc /\ err.line >= 1)

====
